---- MODULE Spec2Model ----
(***************************************************************************)
(* Model of the storage core of the kernel: the bucketed buffer cache      *)
(* (kernel/bio.c) and the write-ahead redo log (log.c, src/unnamed/        *)
(* part_001).                                                              *)
(*                                                                         *)
(* Spec     : kernel threads calling bread / bwrite / brelse / bpin /      *)
(*            bunpin concurrently; bget is modelled statement by statement *)
(*            with one step per lock operation.                            *)
(* SpecLog  : file-system operations bracketed by begin_op / end_op, the   *)
(*            commit of log.c step by step (one step per disk write),      *)
(*            crashes at any point, and recover_from_log.                  *)
(* SpecFs   : one process working on a file through fs.c (src/unnamed/    *)
(*            part_002): ialloc, iget, ilock, bmap, readi, writei,         *)
(*            itrunc, iput.                                                *)
(* SpecDir  : one process working on a directory (dirlookup, dirlink)      *)
(*            while other processes hold inodes in the inode cache.        *)
(* SpecWalk : processes walking paths concurrently: namex step by step     *)
(*            with iget, idup, ilock, iunlock and iput; SpecWalkFair adds  *)
(*            that every process is scheduled again and again.             *)
(***************************************************************************)
EXTENDS Integers, Naturals, Sequences, FiniteSets, TLC

\* ------------------------------------------------------------------ bounds
NBUF == 2          \* number of buffers in bcache.buf (param.h)
NTHREAD == 2       \* kernel threads using the cache concurrently
MaxTicks == 1      \* the timer interrupt fires at most this often
MaxHeld == 1       \* buffers one thread keeps locked at a time
MAXOPBLOCKS == 1   \* blocks one operation may log (param.h)
NOPS == 2          \* processes running file-system operations
MaxCrash == 1      \* crashes injected in one run
MaxRecCrash == 1   \* crashes injected while recover_from_log runs
MaxOps == 3        \* operations begun in one run
NDIRECT == 1       \* direct block addresses of an inode (fs.h)
NINDIRECT == 2     \* block addresses in one indirect block (fs.h)
NINODE == 4        \* entries of the inode cache (param.h)
NOTHER == 1        \* data blocks in use by other files
DIRSIZ == 1        \* characters of a name kept in a directory entry (fs.h)
MaxCreate == 2     \* inodes the process creates
MaxWrites == 4     \* writei calls of the process on files
NWALKER == 2       \* processes walking paths
MaxWalks == 1      \* namex calls of each walking process
SBSIZE == 4        \* sb.size of the disk the concurrent ballocs share
NALLOC == 2        \* processes calling balloc and bfree concurrently
NCPU == 3          \* CPUs, each with its own kmem free list (param.h)
NPAGE == 3         \* physical pages between end and PHYSTOP
STEAL == 2         \* steal_left at the start of a steal (kalloc.c 111: 64)
MaxKops == 2       \* kalloc and kfree calls of each CPU

\* --------------------------------------------------------------- constants
NBUFMAP_BUCKET == 13
\* the one device (dev == 1 in every bread of log.c and fs.c)
ROOTDEV == 0 + 1
\* A uint (refcnt, lastuse, ticks) is kept as its 32-bit pattern read as a
\* signed number: 0 - 1 wraps to the pattern 0xFFFFFFFF, written -1 here,
\* and "refcnt > 0" on a uint is refcnt # 0.
UDec(x) == x - 1
UInc(x) == x + 1

Bufs == 1..NBUF
Buckets == 0..(NBUFMAP_BUCKET - 1)
Threads == 1..NTHREAD
\* block numbers the threads ask for: 5 and 18 hash to bucket 0, 6 to bucket 1
BlockNos == {5, 18, 6}
Data == {0, 1}
\* the blocks whose content the callers change
Written == {5}
NoHold == 0 - 1     \* holding_bucket = -1

\* param.h: LOGSIZE is MAXOPBLOCKS*3; the superblock's nlog (log.size) is
\* LOGSIZE blocks, header included (log.c 37: "int block[LOGSIZE]; // 30",
\* log.c 42: the log is [block2, block32))
LOGSIZE == MAXOPBLOCKS * 3
LogRegionSize == LOGSIZE
Ops == 1..NOPS
\* home blocks the operations write (outside the log region)
HomeBlocks == {40, 41}
NoBuf == 0 - 1      \* no buffer caches the block
NoCpu == 0 - 1      \* a spinlock nobody holds

\* BUFMAP_HASH(dev, blockno) ((((dev)<<27)|(blockno))%NBUFMAP_BUCKET), on
\* uint; dev <= 1 and blockno < 2^27 here, so the shift does not overflow and
\* the bitwise or is an addition.
BUFMAP_HASH(d, bno) == ((d * 134217728) + bno) % NBUFMAP_BUCKET

VARIABLES
  buf,        \* bcache.buf[]: dev, blockno, valid, refcnt, lastuse, data, next
  head,       \* bcache.bufmap[k].next, the first buffer of bucket k (0: null)
  slock,      \* b->lock of each buffer: 0, or the thread that holds it
  maplock,    \* bcache.bufmap_locks[k]: 0, or the holder
  evlock,     \* bcache.bufeviction_locks[k]: 0, or the holder
  ticks,      \* the timer tick counter
  disk,       \* the block device: content of each block
  th,         \* each thread: its position and the locals of bget/bread/brelse
  pins,       \* ghost: the block a buffer was pinned for by bpin (0: no pin)
  lastw,      \* ghost: data of the last bwrite asked for each block
  log,        \* struct log: outstanding, committing, lh.n, lh.block[]
  ldisk,      \* the log's disk: header block, log blocks, home blocks
  lcache,     \* the cached copy of each home block (NoBuf: not cached)
  lpin,       \* bpin minus bunpin calls on the buffer of each home block
  op,         \* each process: its position in begin_op/log_write/end_op
  boot,       \* the boot path: recover_from_log's position, crash count
  tx,         \* ghost: the current transaction, the one a crash hit, and the
              \* disk writes of the running commit in the order they happened
  ic,         \* icache.inode[]: inum, ref, valid and the copied dinode fields
  fsd,        \* the file system's disk: the dinode, the block bitmap, the
              \* data blocks, and the panic that stopped the kernel, if any
  fg,         \* the calling process: the inode it holds locked, the result of
              \* its last call, and (ghost) that call and what it wrote
  wk,         \* each walking process: its position in namex, ip, next, the
              \* rest of the path, its cwd
  ilk,        \* ip->lock of each icache entry: 0, or the process that holds it
  dk,         \* the directory tree on disk, icache.lock's holder, the panic
  ba,         \* concurrent balloc/bfree: the bitmap, the bitmap buffer's
              \* sleep-lock, the blocks' content, each process's position
  km          \* kalloc.c: kmem[].freelist, run.next of each page, the locks,
              \* each CPU's position in kalloc/kfree, the pages handed out

bcvars == <<buf, head, slock, maplock, evlock, ticks, disk, th, pins, lastw>>
logvars == <<log, ldisk, lcache, lpin, op, boot, tx>>
fsvars == <<ic, fsd, fg, wk, ilk, dk>>
allocvars == <<ba, km>>
vars == <<buf, head, slock, maplock, evlock, ticks, disk, th, pins, lastw,
          log, ldisk, lcache, lpin, op, boot, tx, ic, fsd, fg, wk, ilk, dk,
          ba, km>>

\* A list node is a buffer (1..NBUF) or the dummy head of bucket k.
HeadNode(k) == NBUF + 1 + k
NextOf(n) == IF n > NBUF THEN head[n - NBUF - 1] ELSE buf[n].next
\* the dummy heads are zero-initialised globals that nothing writes
LastuseOf(n) == IF n > NBUF THEN 0 ELSE buf[n].lastuse

RECURSIVE ListFrom(_)
ListFrom(n) == IF n = 0 THEN << >> ELSE <<n>> \o ListFrom(buf[n].next)
\* the buffers of bucket k in list order
Bucket(k) == ListFrom(head[k])

Matches(k, bno) ==
  SelectSeq(Bucket(k), LAMBDA b : buf[b].dev = ROOTDEV /\ buf[b].blockno = bno)

\* binit: every buffer is pushed on the front of bucket 0
InitNext(b) == IF b = 1 THEN 0 ELSE b - 1
binit ==
  /\ buf = [b \in Bufs |-> [dev |-> 0, blockno |-> 0, valid |-> 0, refcnt |-> 0,
                            lastuse |-> 0, data |-> 0, next |-> InitNext(b)]]
  /\ head = [k \in Buckets |-> IF k = 0 THEN NBUF ELSE 0]
  /\ slock = [b \in Bufs |-> 0]
  /\ maplock = [k \in Buckets |-> 0]
  /\ evlock = [k \in Buckets |-> 0]

ThreadInit ==
  [pc |-> "idle", blockno |-> 0, key |-> 0, b |-> 0, before_last |-> 0,
   holding_bucket |-> NoHold, i |-> 0, held |-> {}, msg |-> "",
   evicting |-> FALSE, v0 |-> 0, rd |-> FALSE]

BcInit ==
  /\ binit
  /\ ticks = 0
  /\ disk = [n \in BlockNos |-> 0]
  /\ th = [t \in Threads |-> ThreadInit]
  /\ pins = [b \in Bufs |-> 0]
  /\ lastw = [n \in BlockNos |-> 0]

\* panic(): the calling CPU prints the message and spins forever
Panic(t, m) == [th EXCEPT ![t].pc = "panic", ![t].msg = m]

\* ---------------------------------------------------------------- bget
\* A thread asks for a block it does not already hold.
CallBread(t, bno) ==
  /\ th[t].pc = "idle"
  /\ Cardinality(th[t].held) < MaxHeld
  /\ \A h \in th[t].held : h[2] # bno
  /\ th' = [th EXCEPT ![t].pc = "bget_fast", ![t].blockno = bno,
                      ![t].key = BUFMAP_HASH(ROOTDEV, bno), ![t].b = 0,
                      ![t].before_last = 0, ![t].holding_bucket = NoHold,
                      ![t].i = 0, ![t].evicting = FALSE, ![t].rd = FALSE,
                      ![t].v0 = 0]
  /\ UNCHANGED <<buf, head, slock, maplock, evlock, ticks, disk, pins, lastw>>
  /\ UNCHANGED <<logvars, fsvars, allocvars>>

\* bio.c 92-102: acquire(bufmap_locks[key]) and the first scan of the bucket.
\* On a match: refcnt++, then release(&bcache.bufmap[key]), which hands the
\* dummy head of the bucket to release(): that is no lock the CPU holds, so
\* release() panics; bufmap_locks[key] stays held.
\* On a miss: release(bufmap_locks[key]).
BgetFast(t) ==
  /\ th[t].pc = "bget_fast"
  /\ maplock[th[t].key] = 0
  /\ LET m == Matches(th[t].key, th[t].blockno) IN
     IF m # << >>
     THEN /\ buf' = [buf EXCEPT ![m[1]].refcnt = UInc(@)]
          /\ maplock' = [maplock EXCEPT ![th[t].key] = t]
          /\ th' = [Panic(t, "release") EXCEPT ![t].b = m[1]]
     ELSE /\ th' = [th EXCEPT ![t].pc = "bget_evlock"]
          /\ UNCHANGED <<buf, maplock>>
  /\ UNCHANGED <<head, slock, evlock, ticks, disk, pins, lastw>>
  /\ UNCHANGED <<logvars, fsvars, allocvars>>

\* bio.c 103: acquire(&bcache.bufeviction_locks): the array itself, that is
\* element 0 for every key.  105: b = bcache.bufmap[key].next, read with no
\* bucket lock held.
BgetEvictionLock(t) ==
  /\ th[t].pc = "bget_evlock"
  /\ evlock[0] = 0
  /\ evlock' = [evlock EXCEPT ![0] = t]
  /\ th' = [th EXCEPT ![t].pc = "bget_rescan", ![t].b = head[th[t].key]]
  /\ UNCHANGED <<buf, head, slock, maplock, ticks, disk, pins, lastw>>
  /\ UNCHANGED <<logvars, fsvars, allocvars>>

\* bio.c 105-106: one iteration of the second scan, no bucket lock held.
BgetRescan(t) ==
  /\ th[t].pc = "bget_rescan"
  /\ LET b == th[t].b IN
     IF b = 0
     THEN th' = [th EXCEPT ![t].pc = "bget_lru", ![t].i = 0,
                           ![t].before_last = 0, ![t].holding_bucket = NoHold,
                           ![t].evicting = TRUE]
     ELSE IF buf[b].dev = ROOTDEV /\ buf[b].blockno = th[t].blockno
          THEN th' = [th EXCEPT ![t].pc = "bget_rehit"]
          ELSE th' = [th EXCEPT ![t].b = buf[b].next]
  /\ UNCHANGED <<buf, head, slock, maplock, evlock, ticks, disk, pins, lastw>>
  /\ UNCHANGED <<logvars, fsvars, allocvars>>

\* bio.c 107-110: acquire(&bcache.bufmap_locks) (element 0), refcnt++,
\* release(bufmap_locks[key]), release(bufeviction_locks[key]).
BgetRehit(t) ==
  /\ th[t].pc = "bget_rehit"
  /\ maplock[0] = 0
  /\ buf' = [buf EXCEPT ![th[t].b].refcnt = UInc(@)]
  /\ IF th[t].key # 0
     THEN \* bufmap_locks[key] is not held: release() panics
          /\ maplock' = [maplock EXCEPT ![0] = t]
          /\ th' = Panic(t, "release")
          /\ UNCHANGED evlock
     ELSE /\ UNCHANGED maplock
          /\ IF evlock[th[t].key] = t
             THEN /\ evlock' = [evlock EXCEPT ![th[t].key] = 0]
                  /\ th' = [th EXCEPT ![t].pc = "bget_rehit_sleep"]
             ELSE /\ th' = Panic(t, "release")
                  /\ UNCHANGED evlock
  /\ UNCHANGED <<head, slock, ticks, disk, pins, lastw>>
  /\ UNCHANGED <<logvars, fsvars, allocvars>>

\* bio.c 111: acquiresleep(&b->lock); there is no return: the loop goes on
\* with b = b->next.
BgetRehitSleep(t) ==
  /\ th[t].pc = "bget_rehit_sleep"
  /\ slock[th[t].b] = 0
  /\ slock' = [slock EXCEPT ![th[t].b] = t]
  /\ th' = [th EXCEPT ![t].pc = "bget_rescan", ![t].b = buf[th[t].b].next]
  /\ UNCHANGED <<buf, head, maplock, evlock, ticks, disk, pins, lastw>>
  /\ UNCHANGED <<logvars, fsvars, allocvars>>

\* bio.c 122-127: the scan of one bucket, from predecessor node n.  The test
\* compares the lastuse of the predecessor b, not of the candidate b->next.
RECURSIVE ScanFromAnyRef(_, _, _)
ScanFromAnyRef(n, bl, nb) ==
  IF NextOf(n) = 0 THEN <<bl, nb>>
  ELSE IF bl = 0 \/ LastuseOf(n) < LastuseOf(NextOf(bl))
       THEN ScanFromAnyRef(NextOf(n), n, TRUE)
       ELSE ScanFromAnyRef(NextOf(n), bl, nb)
RECURSIVE ScanFrom(_, _, _)
ScanFrom(n, bl, nb) ==
  IF NextOf(n) = 0 THEN <<bl, nb>>
  ELSE IF buf[NextOf(n)].refcnt = 0
          /\ (bl = 0 \/ LastuseOf(n) < LastuseOf(NextOf(bl)))
       THEN ScanFrom(NextOf(n), n, TRUE)
       ELSE ScanFrom(NextOf(n), bl, nb)

\* the eviction scan that releases bufmap_locks[i] after every bucket
BgetLruNoHold(t) ==
  /\ th[t].pc = "bget_lru"
  /\ maplock[th[t].i] = 0
  /\ LET i == th[t].i
         r == ScanFrom(HeadNode(i), th[t].before_last, FALSE)
         hb == th[t].holding_bucket
     IN th' = [th EXCEPT ![t].before_last = r[1],
                         ![t].holding_bucket = IF r[2] THEN i ELSE hb,
                         ![t].i = i + 1,
                         ![t].pc = IF i + 1 = NBUFMAP_BUCKET
                                   THEN "bget_victim" ELSE "bget_lru"]
  /\ UNCHANGED <<buf, head, slock, maplock, evlock, ticks, disk, pins, lastw>>
  /\ UNCHANGED <<logvars, fsvars, allocvars>>

\* bio.c 118-136: bucket i of the eviction scan: acquire(bufmap_locks[i]),
\* scan, then either release it or keep it and release the one held so far.
BgetLru(t) ==
  /\ th[t].pc = "bget_lru"
  /\ maplock[th[t].i] = 0
  /\ LET i == th[t].i
         r == ScanFrom(HeadNode(i), th[t].before_last, FALSE)
         hb == th[t].holding_bucket
     IN /\ IF r[2]
           THEN maplock' = [k \in Buckets |->
                              IF k = i THEN t
                              ELSE IF k = hb THEN 0 ELSE maplock[k]]
           ELSE UNCHANGED maplock
        /\ th' = [th EXCEPT ![t].before_last = r[1],
                            ![t].holding_bucket = IF r[2] THEN i ELSE hb,
                            ![t].i = i + 1,
                            ![t].pc = IF i + 1 = NBUFMAP_BUCKET
                                      THEN "bget_victim" ELSE "bget_lru"]
  /\ UNCHANGED <<buf, head, slock, evlock, ticks, disk, pins, lastw>>
  /\ UNCHANGED <<logvars, fsvars, allocvars>>

\* before_last->next = v, for a predecessor that is a buffer or a dummy head
SetNext(n, v) ==
  /\ buf' = IF n > NBUF THEN buf ELSE [buf EXCEPT ![n].next = v]
  /\ head' = IF n > NBUF THEN [head EXCEPT ![n - NBUF - 1] = v] ELSE head

\* the victim is not taken out of the bucket it was found in
BgetVictimNoUnlink(t) ==
  /\ th[t].pc = "bget_victim"
  /\ IF th[t].before_last = 0
     THEN /\ th' = Panic(t, "bget: no buffers")
          /\ UNCHANGED maplock
     ELSE LET b == NextOf(th[t].before_last) IN
          IF th[t].holding_bucket # th[t].key
          THEN /\ maplock' = [maplock EXCEPT ![th[t].holding_bucket] = 0]
               /\ th' = [th EXCEPT ![t].b = b, ![t].pc = "bget_relink"]
          ELSE /\ th' = [th EXCEPT ![t].b = b, ![t].pc = "bget_install"]
               /\ UNCHANGED maplock
  /\ UNCHANGED <<buf, head, slock, evlock, ticks, disk, pins, lastw>>
  /\ UNCHANGED <<logvars, fsvars, allocvars>>

\* bio.c 138-145: panic when nothing was found; otherwise take the victim out
\* of its bucket when that is not the target bucket.
BgetVictim(t) ==
  /\ th[t].pc = "bget_victim"
  /\ IF th[t].before_last = 0
     THEN /\ th' = Panic(t, "bget: no buffers")
          /\ UNCHANGED <<buf, head, maplock>>
     ELSE LET b == NextOf(th[t].before_last) IN
          IF th[t].holding_bucket # th[t].key
          THEN /\ SetNext(th[t].before_last, buf[b].next)
               /\ maplock' = [maplock EXCEPT ![th[t].holding_bucket] = 0]
               /\ th' = [th EXCEPT ![t].b = b, ![t].pc = "bget_relink"]
          ELSE /\ th' = [th EXCEPT ![t].b = b, ![t].pc = "bget_install"]
               /\ UNCHANGED <<buf, head, maplock>>
  /\ UNCHANGED <<slock, evlock, ticks, disk, pins, lastw>>
  /\ UNCHANGED <<logvars, fsvars, allocvars>>

\* bio.c 146-148: acquire(bufmap_locks[key]) and push the victim on bucket key
BgetRelink(t) ==
  /\ th[t].pc = "bget_relink"
  /\ maplock[th[t].key] = 0
  /\ maplock' = [maplock EXCEPT ![th[t].key] = t]
  /\ buf' = [buf EXCEPT ![th[t].b].next = head[th[t].key]]
  /\ head' = [head EXCEPT ![th[t].key] = th[t].b]
  /\ th' = [th EXCEPT ![t].pc = "bget_install"]
  /\ UNCHANGED <<slock, evlock, ticks, disk, pins, lastw>>
  /\ UNCHANGED <<logvars, fsvars, allocvars>>

\* bio.c 151-154: the victim takes the new identity
Install(b, bno) ==
  [buf EXCEPT ![b].dev = ROOTDEV, ![b].blockno = bno,
              ![b].refcnt = 1, ![b].valid = 0]

\* bio.c 151-156: install, release(bufmap_locks[key]),
\* release(bufeviction_locks[key]): the eviction lock taken at line 103 is
\* element 0, so for key # 0 (or when line 110 released it already)
\* release() is handed a lock the CPU does not hold and panics.
BgetInstall(t) ==
  /\ th[t].pc = "bget_install"
  /\ buf' = Install(th[t].b, th[t].blockno)
  /\ maplock' = [maplock EXCEPT ![th[t].key] = 0]
  /\ IF evlock[th[t].key] = t
     THEN /\ evlock' = [evlock EXCEPT ![th[t].key] = 0]
          /\ th' = [th EXCEPT ![t].pc = "bget_sleep"]
     ELSE /\ th' = Panic(t, "release")
          /\ UNCHANGED evlock
  /\ UNCHANGED <<head, slock, ticks, disk, pins, lastw>>
  /\ UNCHANGED <<logvars, fsvars, allocvars>>

\* bio.c 157-158: acquiresleep(&b->lock); return b
BgetSleep(t) ==
  /\ th[t].pc = "bget_sleep"
  /\ slock[th[t].b] = 0
  /\ slock' = [slock EXCEPT ![th[t].b] = t]
  /\ th' = [th EXCEPT ![t].pc = "bread_io", ![t].v0 = buf[th[t].b].valid]
  /\ UNCHANGED <<buf, head, maplock, evlock, ticks, disk, pins, lastw>>
  /\ UNCHANGED <<logvars, fsvars, allocvars>>

\* --------------------------------------------------------------- bread
\* virtio_disk_rw(b, 0): the buffer's data becomes the block b->blockno
DiskReadNoValid(b) == [buf EXCEPT ![b].data = disk[buf[b].blockno]]
DiskReadNoData(b) == [buf EXCEPT ![b].valid = 1]
DiskRead(b) == [buf EXCEPT ![b].data = disk[buf[b].blockno], ![b].valid = 1]

\* bio.c 199-202
BreadIo(t) ==
  /\ th[t].pc = "bread_io"
  /\ IF buf[th[t].b].valid = 0
     THEN /\ buf' = DiskRead(th[t].b)
          /\ th' = [th EXCEPT ![t].pc = "bread_ret", ![t].rd = TRUE]
     ELSE /\ th' = [th EXCEPT ![t].pc = "bread_ret"]
          /\ UNCHANGED buf
  /\ UNCHANGED <<head, slock, maplock, evlock, ticks, disk, pins, lastw>>
  /\ UNCHANGED <<logvars, fsvars, allocvars>>

\* bio.c 203: return b; the caller now works on the buffer
BreadReturn(t) ==
  /\ th[t].pc = "bread_ret"
  /\ th' = [th EXCEPT ![t].pc = "idle",
                      ![t].held = @ \cup {<<th[t].b, th[t].blockno>>}]
  /\ UNCHANGED <<buf, head, slock, maplock, evlock, ticks, disk, pins, lastw>>
  /\ UNCHANGED <<logvars, fsvars, allocvars>>

\* ----------------------------------------------- the holder of a buffer
\* The caller changes b->data (log.c 88, 219: memmove into the buffer).
Modify(t, h, v) ==
  /\ th[t].pc = "idle"
  /\ h \in th[t].held
  /\ buf[h[1]].data # v
  /\ h[2] \in Written
  /\ buf' = [buf EXCEPT ![h[1]].data = v]
  /\ UNCHANGED <<head, slock, maplock, evlock, ticks, disk, th, pins, lastw>>
  /\ UNCHANGED <<logvars, fsvars, allocvars>>

\* bio.c 207-213: virtio_disk_rw(b, 1) writes b->data to block b->blockno
Bwrite(t, h) ==
  /\ th[t].pc = "idle"
  /\ h \in th[t].held
  /\ IF slock[h[1]] # t
     THEN /\ th' = Panic(t, "bwrite")
          /\ UNCHANGED <<disk, lastw>>
     ELSE /\ disk' = [disk EXCEPT ![buf[h[1]].blockno] = buf[h[1]].data]
          /\ lastw' = [lastw EXCEPT ![h[2]] = buf[h[1]].data]
          /\ UNCHANGED th
  /\ UNCHANGED <<buf, head, slock, maplock, evlock, ticks, pins>>
  /\ UNCHANGED <<logvars, fsvars, allocvars>>

\* bio.c 220-225: the holdingsleep check, releasesleep, and the key computed
\* from the buffer's fields
Brelse(t, h) ==
  /\ th[t].pc = "idle"
  /\ h \in th[t].held
  /\ IF slock[h[1]] # t
     THEN /\ th' = Panic(t, "brelse")
          /\ UNCHANGED slock
     ELSE /\ slock' = [slock EXCEPT ![h[1]] = 0]
          /\ th' = [th EXCEPT ![t].pc = "brelse_dec", ![t].b = h[1],
                              ![t].held = @ \ {h},
                              ![t].key = BUFMAP_HASH(buf[h[1]].dev, buf[h[1]].blockno)]
  /\ UNCHANGED <<buf, head, maplock, evlock, ticks, disk, pins, lastw>>
  /\ UNCHANGED <<logvars, fsvars, allocvars>>

\* bio.c 220-221: brelse of a buffer whose sleep-lock the caller does not
\* hold (a buffer it never got from bread, or one it released already)
BrelseUnlocked(t, b) ==
  /\ th[t].pc = "idle"
  /\ slock[b] # t
  /\ th' = [th EXCEPT ![t] = [ThreadInit EXCEPT !.pc = "panic",
                                                !.msg = "brelse", !.b = b,
                                                !.held = th[t].held]]
  /\ UNCHANGED <<buf, head, slock, maplock, evlock, ticks, disk, pins, lastw>>
  /\ UNCHANGED <<logvars, fsvars, allocvars>>

\* brelse that stamps lastuse whatever refcnt becomes
ReleaseStampAlways(b) ==
  [buf EXCEPT ![b].refcnt = UDec(@), ![b].lastuse = ticks]
\* bio.c 228-233
Release(b) ==
  LET r == UDec(buf[b].refcnt) IN
  [buf EXCEPT ![b].refcnt = r,
              ![b].lastuse = IF r = 0 THEN ticks ELSE @]

\* bio.c 227-235: under bufmap_locks[key]
BrelseDec(t) ==
  /\ th[t].pc = "brelse_dec"
  /\ maplock[th[t].key] = 0
  /\ buf' = Release(th[t].b)
  /\ th' = [th EXCEPT ![t].pc = "idle"]
  /\ UNCHANGED <<head, slock, maplock, evlock, ticks, disk, pins, lastw>>
  /\ UNCHANGED <<logvars, fsvars, allocvars>>

\* bio.c 238-244; log_write pins a buffer it holds, once per transaction
BpinNoRef(t, h) ==
  /\ th[t].pc = "idle"
  /\ h \in th[t].held
  /\ pins[h[1]] = 0
  /\ maplock[BUFMAP_HASH(buf[h[1]].dev, buf[h[1]].blockno)] = 0
  /\ pins' = [pins EXCEPT ![h[1]] = h[2]]
  /\ UNCHANGED <<buf, head, slock, maplock, evlock, ticks, disk, th, lastw>>
  /\ UNCHANGED <<logvars, fsvars, allocvars>>
Bpin(t, h) ==
  /\ th[t].pc = "idle"
  /\ h \in th[t].held
  /\ pins[h[1]] = 0
  /\ maplock[BUFMAP_HASH(buf[h[1]].dev, buf[h[1]].blockno)] = 0
  /\ buf' = [buf EXCEPT ![h[1]].refcnt = UInc(@)]
  /\ pins' = [pins EXCEPT ![h[1]] = h[2]]
  /\ UNCHANGED <<head, slock, maplock, evlock, ticks, disk, th, lastw>>
  /\ UNCHANGED <<logvars, fsvars, allocvars>>

\* bio.c 246-252; install_trans unpins the buffer it holds
Bunpin(t, h) ==
  /\ th[t].pc = "idle"
  /\ h \in th[t].held
  /\ pins[h[1]] > 0
  /\ maplock[BUFMAP_HASH(buf[h[1]].dev, buf[h[1]].blockno)] = 0
  /\ buf' = [buf EXCEPT ![h[1]].refcnt = UDec(@)]
  /\ pins' = [pins EXCEPT ![h[1]] = 0]
  /\ UNCHANGED <<head, slock, maplock, evlock, ticks, disk, th, lastw>>
  /\ UNCHANGED <<logvars, fsvars, allocvars>>

\* trap.c 194-197: clockintr
Tick ==
  /\ ticks < MaxTicks
  /\ ticks' = ticks + 1
  /\ UNCHANGED <<buf, head, slock, maplock, evlock, disk, th, pins, lastw>>
  /\ UNCHANGED <<logvars, fsvars, allocvars>>

Step(t) ==
  \/ \E bno \in BlockNos : CallBread(t, bno)
  \/ BgetFast(t)
  \/ BgetEvictionLock(t)
  \/ BgetRescan(t)
  \/ BgetRehit(t)
  \/ BgetRehitSleep(t)
  \/ BgetLru(t)
  \/ BgetVictim(t)
  \/ BgetRelink(t)
  \/ BgetInstall(t)
  \/ BgetSleep(t)
  \/ BreadIo(t)
  \/ BreadReturn(t)
  \/ \E h \in th[t].held : \E v \in Data : Modify(t, h, v)
  \/ \E h \in th[t].held : Bwrite(t, h)
  \/ \E h \in th[t].held : Brelse(t, h)
  \/ \E b \in Bufs : BrelseUnlocked(t, b)
  \/ BrelseDec(t)
  \/ \E h \in th[t].held : Bpin(t, h)
  \/ \E h \in th[t].held : Bunpin(t, h)

Next == (\E t \in Threads : Step(t)) \/ Tick

\* ================================================================== log
\* log.c 35-49; initlog 71-74 leaves outstanding, committing and lh zeroed.
LogZero ==
  [outstanding |-> 0, committing |-> FALSE, n |-> 0,
   block |-> [i \in 1..LOGSIZE |-> 0], lock |-> 0]
OpInit == [pc |-> "idle", blk |-> 0, tail |-> 0, mine |-> {}]
NoTx == [blocks |-> {}, pay |-> [b \in HomeBlocks |-> 0],
         pre |-> [b \in HomeBlocks |-> 0], committed |-> FALSE]
\* the transaction that starts on a disk whose home blocks are h
NewTx(h) == [NoTx EXCEPT !.pre = h]

\* The kernel boots on a formatted disk with an empty log; main() calls
\* initlog, which runs recover_from_log before any operation starts.
LogInit ==
  /\ log = LogZero
  /\ ldisk = [hn |-> 0, hblock |-> [i \in 1..LOGSIZE |-> 0],
              logblk |-> [i \in 1..LOGSIZE |-> 0],
              home |-> [b \in HomeBlocks |-> 0]]
  /\ lcache = [b \in HomeBlocks |-> NoBuf]
  /\ lpin = [b \in HomeBlocks |-> 0]
  /\ op = [o \in Ops |-> OpInit]
  /\ boot = [pc |-> "rec_read", tail |-> 0, crashes |-> 0, rcrashes |-> 0,
             begun |-> 0,
             panic |-> ""]
  /\ tx = [cur |-> NoTx, cr |-> NoTx, done |-> NoTx, absorbed |-> FALSE,
           wseq |-> <<>>, exp |-> [b \in HomeBlocks |-> 0]]

LogLive == boot.panic = ""
LogPanic(m) == [boot EXCEPT !.panic = m]
\* a wakeup that reaches no sleeper
WakeupNone(o, pc) == [op EXCEPT ![o].pc = pc]
\* wakeup(&log): every process sleeping in begin_op becomes runnable
Wakeup(o, pc) ==
  [p \in Ops |-> IF p = o THEN [op[o] EXCEPT !.pc = pc]
                 ELSE IF op[p].pc = "sleep" THEN [op[p] EXCEPT !.pc = "runnable"]
                 ELSE op[p]]
\* bread of a home block as the log sees it: the cached copy when a buffer
\* holds the block, the disk's content otherwise
Cached(b) == IF lcache[b] # NoBuf THEN lcache[b] ELSE ldisk.home[b]

\* log.c 148-166: begin_op, one pass of its loop under log.lock
BeginOp(o) ==
  /\ LogLive /\ boot.pc = "run"
  /\ op[o].pc \in {"idle", "runnable"}
  /\ op[o].pc = "idle" => boot.begun < MaxOps
  /\ log.lock = 0
  /\ boot' = [boot EXCEPT !.begun = IF op[o].pc = "idle" THEN @ + 1 ELSE @]
  /\ IF log.committing
     THEN op' = [op EXCEPT ![o].pc = "sleep"] /\ UNCHANGED <<log, tx>>
     ELSE IF log.n + (log.outstanding + 1) * MAXOPBLOCKS > LOGSIZE
          THEN op' = [op EXCEPT ![o].pc = "sleep"] /\ UNCHANGED <<log, tx>>
          ELSE /\ log' = [log EXCEPT !.outstanding = @ + 1]
               /\ op' = [op EXCEPT ![o].pc = "inop", ![o].mine = {}]
               /\ tx' = [tx EXCEPT !.done = NoTx]
  /\ UNCHANGED <<ldisk, lcache, lpin>>
  /\ UNCHANGED <<bcvars, fsvars, allocvars>>

\* log_write without the test against log.size
LogWriteCallNoSizeTest(o, b, v) ==
  /\ LogLive /\ boot.pc = "run"
  /\ op[o].pc = "inop"
  /\ \A p \in Ops : op[p].blk # b
  /\ Cardinality(op[o].mine \cup {b}) <= MAXOPBLOCKS
  /\ lcache' = [lcache EXCEPT ![b] = v]
  /\ IF log.n >= LOGSIZE
     THEN boot' = LogPanic("too big a transaction") /\ UNCHANGED op
     ELSE IF log.outstanding < 1
          THEN boot' = LogPanic("log_write outside of trans") /\ UNCHANGED op
          ELSE /\ op' = [op EXCEPT ![o].pc = "log_write", ![o].blk = b]
               /\ UNCHANGED boot
  /\ UNCHANGED <<log, ldisk, lpin, tx>>
  /\ UNCHANGED <<bcvars, fsvars, allocvars>>

\* The operation reads block b (bread), changes its data to v and calls
\* log_write; log.c 254-257 are log_write's checks, made before log.lock is
\* taken.  An operation logs at most MAXOPBLOCKS distinct blocks.
LogWriteCall(o, b, v) ==
  /\ LogLive /\ boot.pc = "run"
  /\ op[o].pc = "inop"
  /\ \A p \in Ops : op[p].blk # b
  /\ Cardinality(op[o].mine \cup {b}) <= MAXOPBLOCKS
  /\ lcache' = [lcache EXCEPT ![b] = v]
  /\ IF log.n >= LOGSIZE \/ log.n >= LogRegionSize - 1
     THEN boot' = LogPanic("too big a transaction") /\ UNCHANGED op
     ELSE IF log.outstanding < 1
          THEN boot' = LogPanic("log_write outside of trans") /\ UNCHANGED op
          ELSE /\ op' = [op EXCEPT ![o].pc = "log_write", ![o].blk = b]
               /\ UNCHANGED boot
  /\ UNCHANGED <<log, ldisk, lpin, tx>>
  /\ UNCHANGED <<bcvars, fsvars, allocvars>>

\* log.c 260-263: the slot of block b in lh.block[0..n), or n when absent
\* (slots are 1..n here)
SlotOfAppend(b) == log.n + 1
RECURSIVE SlotFrom(_, _)
SlotFrom(i, b) ==
  IF i > log.n THEN i
  ELSE IF log.block[i] = b THEN i ELSE SlotFrom(i + 1, b)
SlotOf(b) == SlotFrom(1, b)

\* log.c 259-269: under log.lock; then the caller's brelse
LogWriteLocked(o) ==
  /\ LogLive /\ boot.pc = "run"
  /\ op[o].pc = "log_write"
  /\ log.lock = 0
  /\ LET b == op[o].blk
         i == SlotOf(b)
     IN /\ log' = [log EXCEPT !.block[i] = b,
                              !.n = IF i = log.n + 1 THEN @ + 1 ELSE @]
        /\ lpin' = IF i = log.n + 1 THEN [lpin EXCEPT ![b] = @ + 1] ELSE lpin
        /\ tx' = [tx EXCEPT !.cur.blocks = @ \cup {b},
                            !.cur.pay[b] = lcache[b],
                            !.absorbed = @ \/ i <= log.n]
        /\ op' = [op EXCEPT ![o].pc = "inop", ![o].blk = 0,
                            ![o].mine = @ \cup {b}]
  /\ UNCHANGED <<ldisk, lcache, boot>>
  /\ UNCHANGED <<bcvars, fsvars, allocvars>>

\* log.c 254-257: log_write called by a process that has not called
\* begin_op; the checks see the log's counters, not the caller.  The call
\* counts among the MaxOps operations of a run.
LogWriteOutside(o, b, v) ==
  /\ LogLive /\ boot.pc = "run"
  /\ op[o].pc = "idle"
  /\ boot.begun < MaxOps
  /\ \A p \in Ops : op[p].blk # b
  /\ lcache' = [lcache EXCEPT ![b] = v]
  /\ IF log.n >= LOGSIZE \/ log.n >= LogRegionSize - 1
     THEN /\ boot' = [LogPanic("too big a transaction") EXCEPT !.begun = @ + 1]
          /\ UNCHANGED op
     ELSE IF log.outstanding < 1
          THEN /\ boot' = [LogPanic("log_write outside of trans")
                             EXCEPT !.begun = @ + 1]
               /\ UNCHANGED op
          ELSE /\ op' = [op EXCEPT ![o].pc = "log_write_out", ![o].blk = b]
               /\ boot' = [boot EXCEPT !.begun = @ + 1]
  /\ UNCHANGED <<log, ldisk, lpin, tx>>
  /\ UNCHANGED <<bcvars, fsvars, allocvars>>

\* log.c 259-269 for that caller, which returns outside any operation
LogWriteOutsideLocked(o) ==
  /\ LogLive /\ boot.pc = "run"
  /\ op[o].pc = "log_write_out"
  /\ log.lock = 0
  /\ LET b == op[o].blk
         i == SlotOf(b)
     IN /\ log' = [log EXCEPT !.block[i] = b,
                              !.n = IF i = log.n + 1 THEN @ + 1 ELSE @]
        /\ lpin' = IF i = log.n + 1 THEN [lpin EXCEPT ![b] = @ + 1] ELSE lpin
        /\ tx' = [tx EXCEPT !.cur.blocks = @ \cup {b},
                            !.cur.pay[b] = lcache[b],
                            !.absorbed = @ \/ i <= log.n]
        /\ op' = [op EXCEPT ![o].pc = "idle", ![o].blk = 0]
  /\ UNCHANGED <<ldisk, lcache, boot>>
  /\ UNCHANGED <<bcvars, fsvars, allocvars>>

\* log.c 226-238: the steps of commit(), in order
CommitStepsInstallFirst == <<"write_log", "install", "write_head", "clear">>
CommitStepsHeadFirst == <<"write_head", "write_log", "install", "clear">>
CommitSteps == <<"write_log", "write_head", "install", "clear">>
AfterStep(pc) ==
  LET k == CHOOSE j \in 1..Len(CommitSteps) : CommitSteps[j] = pc
  IN IF k = Len(CommitSteps) THEN "end_op_wake" ELSE CommitSteps[k + 1]

\* log.c 179-192: end_op under log.lock; the committing operation is left
\* in front of release(&log.lock)
EndOp(o) ==
  /\ LogLive /\ boot.pc = "run"
  /\ op[o].pc = "inop"
  /\ log.lock = 0
  /\ IF log.committing
     THEN /\ boot' = LogPanic("log.committing")
          /\ log' = [log EXCEPT !.outstanding = @ - 1]
          /\ UNCHANGED op
     ELSE IF log.outstanding - 1 = 0
          THEN /\ log' = [log EXCEPT !.outstanding = 0, !.committing = TRUE,
                                     !.lock = o]
               /\ op' = [op EXCEPT ![o].pc = "end_op_unlock"]
               /\ UNCHANGED boot
          ELSE /\ log' = [log EXCEPT !.outstanding = @ - 1]
               /\ op' = Wakeup(o, "idle")
               /\ UNCHANGED boot
  /\ UNCHANGED <<ldisk, lcache, lpin, tx>>
  /\ UNCHANGED <<bcvars, fsvars, allocvars>>

\* log.c 192: release(&log.lock)
EndOpKeepLock(l) == l
EndOpRelease(l) == [l EXCEPT !.lock = 0]

\* log.c 192-199: the committing operation releases log.lock and calls
\* commit(), which does nothing when the log is empty (log.c 229)
EndOpUnlock(o) ==
  /\ LogLive /\ boot.pc = "run"
  /\ op[o].pc = "end_op_unlock"
  /\ log' = EndOpRelease(log)
  /\ op' = [op EXCEPT ![o].tail = 0,
                      ![o].pc = IF log.n > 0 THEN CommitSteps[1]
                                ELSE "end_op_wake"]
  /\ UNCHANGED <<ldisk, lcache, lpin, boot, tx>>
  /\ UNCHANGED <<bcvars, fsvars, allocvars>>

\* log.c 214-223: one iteration of write_log: the cached home block is
\* copied to log block tail+1 and written
WriteLog(o) ==
  /\ LogLive /\ boot.pc = "run"
  /\ op[o].pc = "write_log"
  /\ LET t == op[o].tail + 1
         b == log.block[t]
     IN /\ ldisk' = [ldisk EXCEPT !.logblk[t] = Cached(b)]
        /\ lcache' = [lcache EXCEPT ![b] = Cached(b)]
        /\ op' = [op EXCEPT ![o].tail = IF t = log.n THEN 0 ELSE t,
                            ![o].pc = IF t = log.n THEN AfterStep("write_log")
                                      ELSE "write_log"]
        /\ tx' = [tx EXCEPT !.wseq = Append(@, <<"log", t>>)]
  /\ UNCHANGED <<log, lpin, boot>>
  /\ UNCHANGED <<bcvars, fsvars, allocvars>>

\* log.c 118-131: write_head: n and block[0..n) go to the header block
HeadImage(d) ==
  [d EXCEPT !.hn = log.n,
            !.hblock = [i \in 1..LOGSIZE |->
                          IF i <= log.n THEN log.block[i] ELSE d.hblock[i]]]

\* log.c 231: the header write that commits
WriteHead(o) ==
  /\ LogLive /\ boot.pc = "run"
  /\ op[o].pc = "write_head"
  /\ ldisk' = HeadImage(ldisk)
  /\ op' = [op EXCEPT ![o].pc = AfterStep("write_head"), ![o].tail = 0]
  /\ tx' = [tx EXCEPT !.cur.committed = @ \/ ldisk'.hn > 0,
                      !.wseq = Append(@, <<"head", ldisk'.hn>>)]
  /\ UNCHANGED <<log, lcache, lpin, boot>>
  /\ UNCHANGED <<bcvars, fsvars, allocvars>>

\* log.c 86-89: log block t is copied to its home block and written
InstallBlockNoWrite(d, t) == d
InstallBlockFirstSlot(d, t) == [d EXCEPT !.home[log.block[t]] = d.logblk[1]]
InstallBlock(d, t) == [d EXCEPT !.home[log.block[t]] = d.logblk[t]]

\* log.c 84-94: one iteration of install_trans(0), bunpin included
InstallTrans(o) ==
  /\ LogLive /\ boot.pc = "run"
  /\ op[o].pc = "install"
  /\ LET t == op[o].tail + 1
         b == log.block[t]
     IN /\ ldisk' = InstallBlock(ldisk, t)
        /\ lcache' = [lcache EXCEPT ![b] = ldisk.logblk[t]]
        /\ lpin' = [lpin EXCEPT ![b] = @ - 1]
        /\ op' = [op EXCEPT ![o].tail = IF t = log.n THEN 0 ELSE t,
                            ![o].pc = IF t = log.n THEN AfterStep("install")
                                      ELSE "install"]
        /\ tx' = [tx EXCEPT !.wseq = Append(@, <<"home", b>>)]
  /\ UNCHANGED <<log, boot>>
  /\ UNCHANGED <<bcvars, fsvars, allocvars>>

\* a commit that clears lh.n and leaves the header on disk as it is
ClearHeadKeepHeader(o) ==
  /\ LogLive /\ boot.pc = "run"
  /\ op[o].pc = "clear"
  /\ log' = [log EXCEPT !.n = 0]
  /\ op' = [op EXCEPT ![o].pc = AfterStep("clear")]
  /\ tx' = [tx EXCEPT !.wseq = Append(@, <<"head", 0>>)]
  /\ UNCHANGED <<ldisk, lcache, lpin, boot>>
  /\ UNCHANGED <<bcvars, fsvars, allocvars>>

\* log.c 235-236: log.lh.n = 0; write_head()
ClearHead(o) ==
  /\ LogLive /\ boot.pc = "run"
  /\ op[o].pc = "clear"
  /\ log' = [log EXCEPT !.n = 0]
  /\ ldisk' = [ldisk EXCEPT !.hn = 0]
  /\ op' = [op EXCEPT ![o].pc = AfterStep("clear")]
  /\ tx' = [tx EXCEPT !.wseq = Append(@, <<"head", ldisk'.hn>>)]
  /\ UNCHANGED <<lcache, lpin, boot>>
  /\ UNCHANGED <<bcvars, fsvars, allocvars>>

\* log.c 201-204: end_op after commit()
EndOpWake(o) ==
  /\ LogLive /\ boot.pc = "run"
  /\ op[o].pc = "end_op_wake"
  /\ log.lock = 0
  /\ log' = [log EXCEPT !.committing = FALSE]
  /\ op' = Wakeup(o, "idle")
  /\ tx' = [tx EXCEPT !.done = tx.cur, !.cur = NewTx(ldisk.home),
                      !.absorbed = FALSE, !.wseq = <<>>]
  /\ UNCHANGED <<ldisk, lcache, lpin, boot>>
  /\ UNCHANGED <<bcvars, fsvars, allocvars>>

\* The buffer cache recycles the buffer of a block nobody references
\* (refcnt == 0: not pinned, not locked by an operation).
Evict(b) ==
  /\ LogLive /\ boot.pc = "run"
  /\ lcache[b] # NoBuf
  /\ lpin[b] = 0
  /\ \A p \in Ops : op[p].blk # b
  /\ lcache' = [lcache EXCEPT ![b] = NoBuf]
  /\ UNCHANGED <<log, ldisk, lpin, op, boot, tx>>
  /\ UNCHANGED <<bcvars, fsvars, allocvars>>

\* log.c 133-141: the home blocks one uninterrupted recover_from_log leaves
\* on disk d: read_head, then install_trans over the header's n entries
RECURSIVE ReplayFrom(_, _)
ReplayFrom(d, t) ==
  IF t > d.hn THEN d.home
  ELSE ReplayFrom([d EXCEPT !.home[d.hblock[t]] = d.logblk[t]], t + 1)
Replay(d) == ReplayFrom(d, 1)

\* A crash (or the reset that follows a panic): memory is lost, the disk
\* stays; the kernel reboots into initlog.
Crash ==
  /\ boot.pc = "run"
  /\ boot.crashes < MaxCrash
  /\ log' = LogZero
  /\ lcache' = [b \in HomeBlocks |-> NoBuf]
  /\ lpin' = [b \in HomeBlocks |-> 0]
  /\ op' = [o \in Ops |-> OpInit]
  /\ boot' = [boot EXCEPT !.pc = "rec_read", !.tail = 0, !.crashes = @ + 1,
                          !.panic = ""]
  /\ tx' = [tx EXCEPT !.cr = tx.cur,
                      !.cur = NoTx, !.done = NoTx, !.absorbed = FALSE,
                      !.wseq = <<>>, !.exp = Replay(ldisk)]
  /\ UNCHANGED ldisk
  /\ UNCHANGED <<bcvars, fsvars, allocvars>>

\* A crash while recover_from_log runs (or right after it): the kernel
\* reboots into initlog again.
RecCrash ==
  /\ boot.pc # "run"
  /\ boot.rcrashes < MaxRecCrash
  /\ log' = LogZero
  /\ lcache' = [b \in HomeBlocks |-> NoBuf]
  /\ boot' = [boot EXCEPT !.pc = "rec_read", !.tail = 0, !.rcrashes = @ + 1]
  /\ UNCHANGED <<ldisk, lpin, op, tx>>
  /\ UNCHANGED <<bcvars, fsvars, allocvars>>

\* log.c 100-112, 136: read_head
RecReadHead ==
  /\ LogLive /\ boot.pc = "rec_read"
  /\ log' = [log EXCEPT !.n = ldisk.hn,
                        !.block = [i \in 1..LOGSIZE |->
                                     IF i <= ldisk.hn THEN ldisk.hblock[i]
                                     ELSE log.block[i]]]
  /\ boot' = [boot EXCEPT !.pc = IF ldisk.hn > 0 THEN "rec_install"
                                 ELSE "rec_clear", !.tail = 0]
  /\ UNCHANGED <<ldisk, lcache, lpin, op, tx>>
  /\ UNCHANGED <<bcvars, fsvars, allocvars>>

\* log.c 84-94, 137: one iteration of install_trans(1)
RecInstall ==
  /\ LogLive /\ boot.pc = "rec_install"
  /\ LET t == boot.tail + 1
         b == log.block[t]
     IN /\ ldisk' = InstallBlock(ldisk, t)
        /\ lcache' = [lcache EXCEPT ![b] = ldisk.logblk[t]]
        /\ boot' = [boot EXCEPT !.tail = t,
                                !.pc = IF t = log.n THEN "rec_clear"
                                       ELSE "rec_install"]
  /\ UNCHANGED <<log, lpin, op, tx>>
  /\ UNCHANGED <<bcvars, fsvars, allocvars>>

\* log.c 139-140: log.lh.n = 0; write_head()
RecClear ==
  /\ LogLive /\ boot.pc = "rec_clear"
  /\ log' = [log EXCEPT !.n = 0]
  /\ ldisk' = [ldisk EXCEPT !.hn = 0]
  /\ boot' = [boot EXCEPT !.pc = "rec_done"]
  /\ UNCHANGED <<lcache, lpin, op, tx>>
  /\ UNCHANGED <<bcvars, fsvars, allocvars>>

\* log.c 75-76: initlog returns; operations may start
RecDone ==
  /\ LogLive /\ boot.pc = "rec_done"
  /\ boot' = [boot EXCEPT !.pc = "run"]
  /\ tx' = [tx EXCEPT !.cur = NewTx(ldisk.home)]
  /\ UNCHANGED <<log, ldisk, lcache, lpin, op>>
  /\ UNCHANGED <<bcvars, fsvars, allocvars>>

OpStep(o) ==
  \/ BeginOp(o)
  \/ \E b \in HomeBlocks : \E v \in Data : LogWriteCall(o, b, v)
  \/ LogWriteLocked(o)
  \/ EndOp(o)
  \/ EndOpUnlock(o)
  \/ WriteLog(o)
  \/ WriteHead(o)
  \/ InstallTrans(o)
  \/ ClearHead(o)
  \/ EndOpWake(o)

NextLog ==
  \/ \E o \in Ops : OpStep(o)
  \/ \E b \in HomeBlocks : Evict(b)
  \/ Crash
  \/ RecCrash
  \/ RecReadHead
  \/ RecInstall
  \/ RecClear
  \/ RecDone


\* =========================================================== file system
\* A block is BSIZE/sizeof(uint) = NINDIRECT cells of one uint each; file
\* offsets and lengths count cells, and a directory entry takes one cell.
BSIZE == NINDIRECT
MAXFILE == NDIRECT + NINDIRECT + NINDIRECT * NINDIRECT
\* data blocks of the device: enough for one file of MAXFILE blocks with its
\* indirect blocks, and the blocks of the other files
FSSIZE == MAXFILE + 2 + NINDIRECT + NOTHER
Blocks == 1..FSSIZE
Slots == 1..NINODE
T_DIR == 1
T_FILE == 2
ROOTINO == 1
\* the inode number ialloc hands out: the first one after the root
TestIno == ROOTINO + 1
\* inode numbers found in directory entries, and those other processes hold
DirInums == {ROOTINO, TestIno, NINODE + 1}
OtherInums == (TestIno + 1)..NINODE
MaxWrite == 2 * BSIZE
MaxRef == 2

Walkers == 1..NWALKER
Min(a, b) == IF a < b THEN a ELSE b
MinOf(S) == CHOOSE x \in S : \A y \in S : x <= y
ZeroBlock == [c \in 0..(BSIZE - 1) |-> 0]
NoAddrs == [k \in 0..(NDIRECT + 1) |-> 0]
FreeInode ==
  [dev |-> 0, inum |-> 0, ref |-> 0, valid |-> 0, type |-> 0, nlink |-> 0,
   size |-> 0, addrs |-> NoAddrs]
FreeDinode == [type |-> 0, nlink |-> 0, size |-> 0, addrs |-> NoAddrs]
\* the root directory, the cwd of every process, in the first cache entry
RootSlot == MinOf(Slots)
RootInode ==
  [dev |-> ROOTDEV, inum |-> ROOTINO, ref |-> NWALKER, valid |-> 1,
   type |-> T_DIR, nlink |-> 1, size |-> 0, addrs |-> NoAddrs]

\* the kernel after boot: the root directory is cached as the cwd of every
\* process; on the disk the blocks 1..NOTHER belong to other files and the
\* dinode TestIno is free
FsInit ==
  /\ ic = [i \in Slots |-> IF i = RootSlot THEN RootInode ELSE FreeInode]
  /\ fsd = [din |-> FreeDinode, used |-> 1..NOTHER,
            blk |-> [b \in Blocks |-> ZeroBlock], panic |-> "", lw |-> {}]
  /\ fg = [cur |-> 0, dup |-> 0, nc |-> 0, nw |-> 0, call |-> <<>>, others |-> {}, ret |-> 0, rd |-> <<>>,
           rdoff |-> 0 - 1, exp |-> <<>>, freed |-> {}]

\* The operators below take and return F = [ic |-> the inode cache,
\* d |-> the disk]; a panic is recorded in F.d.panic.
\* Op applied to the value x, which is computed once
With(x, Op(_)) == CHOOSE y \in {Op(v) : v \in {x}} : TRUE
FsPanic(F, m) == IF F.d.panic = "" THEN [F EXCEPT !.d.panic = m] ELSE F
Cell(F, b, k) == IF b \in Blocks THEN F.d.blk[b][k] ELSE 0
SetCell(F, b, k, v) == IF b \in Blocks THEN [F EXCEPT !.d.blk[b][k] = v] ELSE F

\* fs.c 72: the bitmap block, which lies in front of the data blocks
BitmapBlock == 0
\* fs.c 67-88: balloc with bzero: the lowest free block; the bitmap block
\* and the zeroed block go through log_write (F.d.lw)
Balloc(F) ==
  LET free == {b \in Blocks : b \notin F.d.used}
  IN IF F.d.panic # "" THEN [F |-> F, a |-> 0]
     ELSE IF free = {}
     THEN [F |-> FsPanic(F, "balloc: out of blocks"), a |-> 0]
     ELSE LET b == CHOOSE x \in free : \A y \in free : x <= y
          IN [F |-> [F EXCEPT !.d.used = @ \cup {b}, !.d.blk[b] = ZeroBlock,
                              !.d.lw = @ \cup {BitmapBlock, b}],
              a |-> b]

\* fs.c 92-105: bfree
Bfree(F, b) ==
  IF F.d.panic # "" THEN F
  ELSE IF b \notin F.d.used THEN FsPanic(F, "freeing free block")
  ELSE [F EXCEPT !.d.used = @ \ {b}, !.d.lw = @ \cup {BitmapBlock}]

\* fs.c 414-415, 422-423, 438-439: ip->addrs[k], allocated when 0
EnsureAddr(F, i, k) ==
  IF F.ic[i].addrs[k] # 0 THEN [F |-> F, a |-> F.ic[i].addrs[k]]
  ELSE LET r == Balloc(F)
       IN [F |-> [r.F EXCEPT !.ic[i].addrs[k] = r.a], a |-> r.a]

\* a bmap that changes the indirect block without log_write
EnsureCellNoLog(F, b, k) ==
  IF Cell(F, b, k) # 0 THEN [F |-> F, a |-> Cell(F, b, k)]
  ELSE LET r == Balloc(F)
       IN [F |-> SetCell(r.F, b, k, r.a), a |-> r.a]

\* fs.c 424-430, 440-456: entry k of the indirect block b, allocated when 0,
\* and the log_write of the indirect block
EnsureCell(F, b, k) ==
  IF Cell(F, b, k) # 0 THEN [F |-> F, a |-> Cell(F, b, k)]
  ELSE LET r == Balloc(F)
       IN [F |-> [SetCell(r.F, b, k, r.a) EXCEPT !.d.lw = @ \cup {b}],
           a |-> r.a]

\* fs.c 443-444
Level1(bn) == bn \div NINDIRECT
Level2Div(bn) == bn \div NINDIRECT
Level2(bn) == bn % NINDIRECT

\* fs.c 408-462: bmap
Bmap(F, i, bn) ==
  IF bn < NDIRECT THEN EnsureAddr(F, i, bn)
  ELSE IF bn - NDIRECT < NINDIRECT
  THEN With(EnsureAddr(F, i, NDIRECT),
            LAMBDA r1 : EnsureCell(r1.F, r1.a, bn - NDIRECT))
  ELSE IF bn - NDIRECT - NINDIRECT < NINDIRECT * NINDIRECT
  THEN With(EnsureAddr(F, i, NDIRECT + 1), LAMBDA r1 :
       With(EnsureCell(r1.F, r1.a, Level1(bn - NDIRECT - NINDIRECT)),
            LAMBDA r2 :
              EnsureCell(r2.F, r2.a, Level2(bn - NDIRECT - NINDIRECT))))
  ELSE [F |-> FsPanic(F, "bmap: out of range"), a |-> 0]

\* fs.c 231-246: iupdate (the disk holds the dinode of TestIno)
Iupdate(F, i) ==
  [F EXCEPT !.d.din = [type |-> F.ic[i].type, nlink |-> F.ic[i].nlink,
                       size |-> F.ic[i].size, addrs |-> F.ic[i].addrs]]

\* fs.c 578-589: the loop of writei; the source holds the value v throughout
RECURSIVE WriteCells(_, _, _, _, _)
WriteCells(F, b, k, m, v) ==
  IF m = 0 THEN F ELSE WriteCells(SetCell(F, b, k, v), b, k + 1, m - 1, v)
RECURSIVE WriteiLoop(_, _, _, _, _, _)
WriteiLoop(F, i, off, tot, n, v) ==
  IF tot >= n \/ F.d.panic # "" THEN [F |-> F, off |-> off, tot |-> tot]
  ELSE With(Bmap(F, i, off \div BSIZE), LAMBDA r :
       With(Min(n - tot, BSIZE - (off % BSIZE)), LAMBDA m :
       With(WriteCells(r.F, r.a, off % BSIZE, m, v), LAMBDA G :
            WriteiLoop(G, i, off + m, tot + m, n, v))))

\* off + n on uint: the code's 2^32 is UINTSZ here, which leaves room for
\* every offset of a file and for sums that wrap
UINTSZ == 4 * MAXFILE * BSIZE
UAdd(a, b) == (a + b) % UINTSZ

\* a writei without the test for off + n wrapping around
WriteiNoWrapTest(F, i, off, n, v) ==
  IF off > F.ic[i].size THEN [F |-> F, ret |-> 0 - 1]
  ELSE IF UAdd(off, n) > MAXFILE * BSIZE THEN [F |-> F, ret |-> 0 - 1]
  ELSE With(WriteiLoop(F, i, off, 0, n, v), LAMBDA r :
       With(IF r.off > r.F.ic[i].size
            THEN [r.F EXCEPT !.ic[i].size = r.off] ELSE r.F, LAMBDA G :
            [F |-> Iupdate(G, i), ret |-> r.tot]))

\* fs.c 568-600: writei
Writei(F, i, off, n, v) ==
  IF off > F.ic[i].size \/ UAdd(off, n) < off THEN [F |-> F, ret |-> 0 - 1]
  ELSE IF UAdd(off, n) > MAXFILE * BSIZE THEN [F |-> F, ret |-> 0 - 1]
  ELSE With(WriteiLoop(F, i, off, 0, n, v), LAMBDA r :
       With(IF r.off > r.F.ic[i].size
            THEN [r.F EXCEPT !.ic[i].size = r.off] ELSE r.F, LAMBDA G :
            [F |-> Iupdate(G, i), ret |-> r.tot]))

\* fs.c 545-554: the loop of readi
RECURSIVE ReadiLoop(_, _, _, _, _, _)
ReadiLoop(F, i, off, tot, n, acc) ==
  IF tot >= n \/ F.d.panic # "" THEN [F |-> F, data |-> acc, ret |-> tot]
  ELSE With(Bmap(F, i, off \div BSIZE), LAMBDA r :
       With(Min(n - tot, BSIZE - (off % BSIZE)), LAMBDA m :
            ReadiLoop(r.F, i, off + m, tot + m, n,
                      acc \o [k \in 1..m |->
                                Cell(r.F, r.a, (off % BSIZE) + k - 1)])))

\* fs.c 535-556: readi
Readi(F, i, off, n) ==
  IF off > F.ic[i].size \/ UAdd(off, n) < off
  THEN [F |-> F, data |-> <<>>, ret |-> 0]
  ELSE ReadiLoop(F, i, off, 0,
                 IF UAdd(off, n) > F.ic[i].size THEN F.ic[i].size - off ELSE n,
                 <<>>)

IgetNoHit(F, dev, inum) ==
  LET empty == {i \in Slots : F.ic[i].ref = 0}
  IN IF F.d.panic # "" THEN [F |-> F, ip |-> 0]
     ELSE IF empty = {}
     THEN [F |-> FsPanic(F, "iget: no inodes"), ip |-> 0]
     ELSE [F |-> [F EXCEPT !.ic[MinOf(empty)].dev = dev,
                           !.ic[MinOf(empty)].inum = inum,
                           !.ic[MinOf(empty)].ref = 1,
                           !.ic[MinOf(empty)].valid = 0],
           ip |-> MinOf(empty)]

\* fs.c 255-286: iget
Iget(F, dev, inum) ==
  LET hit == {i \in Slots : /\ F.ic[i].ref > 0
                            /\ F.ic[i].dev = dev
                            /\ F.ic[i].inum = inum}
      empty == {i \in Slots : F.ic[i].ref = 0}
  IN IF F.d.panic # "" THEN [F |-> F, ip |-> 0]
     ELSE IF hit # {}
     THEN [F |-> [F EXCEPT !.ic[MinOf(hit)].ref = @ + 1], ip |-> MinOf(hit)]
     ELSE IF empty = {}
     THEN [F |-> FsPanic(F, "iget: no inodes"), ip |-> 0]
     ELSE [F |-> [F EXCEPT !.ic[MinOf(empty)].dev = dev,
                           !.ic[MinOf(empty)].inum = inum,
                           !.ic[MinOf(empty)].ref = 1,
                           !.ic[MinOf(empty)].valid = 0],
           ip |-> MinOf(empty)]

\* fs.c 291-298: idup
Idup(F, i) == [F EXCEPT !.ic[i].ref = @ + 1]

\* fs.c 307-331: ilock, without the sleep-lock
Ilock(F, i) ==
  IF F.d.panic # "" THEN F
  ELSE IF i = 0 \/ F.ic[i].ref < 1 THEN FsPanic(F, "ilock")
  ELSE IF F.ic[i].valid = 0
  THEN LET G == [F EXCEPT !.ic[i].type = F.d.din.type,
                          !.ic[i].nlink = F.d.din.nlink,
                          !.ic[i].size = F.d.din.size,
                          !.ic[i].addrs = F.d.din.addrs,
                          !.ic[i].valid = 1]
       IN IF G.ic[i].type = 0 THEN FsPanic(G, "ilock: no type") ELSE G
  ELSE F

\* fs.c 483-486, 499-502: bfree every non-zero entry of the indirect block b
RECURSIVE FreeEntries(_, _, _)
FreeEntries(F, b, j) ==
  IF j >= NINDIRECT THEN F
  ELSE FreeEntries(IF Cell(F, b, j) # 0 THEN Bfree(F, Cell(F, b, j)) ELSE F,
                   b, j + 1)

\* fs.c 473-478: the direct blocks
RECURSIVE FreeDirect(_, _, _)
FreeDirect(F, i, k) ==
  IF k >= NDIRECT THEN F
  ELSE FreeDirect(IF F.ic[i].addrs[k] # 0
                  THEN [Bfree(F, F.ic[i].addrs[k]) EXCEPT !.ic[i].addrs[k] = 0]
                  ELSE F,
                  i, k + 1)

\* fs.c 495-507: the second-level blocks of the doubly-indirect block b
FreeSecondKeepEntries(F, b2) == Bfree(F, b2)
FreeSecond(F, b2) == Bfree(FreeEntries(F, b2, 0), b2)
RECURSIVE FreeDouble(_, _, _)
FreeDouble(F, b, j) ==
  IF j >= NINDIRECT THEN F
  ELSE FreeDouble(IF Cell(F, b, j) # 0 THEN FreeSecond(F, Cell(F, b, j))
                  ELSE F,
                  b, j + 1)

\* fs.c 467-515: itrunc
Itrunc(F, i) ==
  With(FreeDirect(F, i, 0), LAMBDA F1 :
  With(IF F1.ic[i].addrs[NDIRECT] # 0
       THEN [Bfree(FreeEntries(F1, F1.ic[i].addrs[NDIRECT], 0),
                   F1.ic[i].addrs[NDIRECT])
               EXCEPT !.ic[i].addrs[NDIRECT] = 0]
       ELSE F1, LAMBDA F2 :
  With(IF F2.ic[i].addrs[NDIRECT + 1] # 0
       THEN [Bfree(FreeDouble(F2, F2.ic[i].addrs[NDIRECT + 1], 0),
                   F2.ic[i].addrs[NDIRECT + 1])
               EXCEPT !.ic[i].addrs[NDIRECT + 1] = 0]
       ELSE F2, LAMBDA F3 :
       IF F3.d.panic # "" THEN F3
       ELSE Iupdate([F3 EXCEPT !.ic[i].size = 0], i))))

\* fs.c 362-387: iput by the only process
Iput(F, i) ==
  With(IF F.ic[i].ref = 1 /\ F.ic[i].valid # 0 /\ F.ic[i].nlink = 0
       THEN With(Itrunc(F, i), LAMBDA T :
                 IF T.d.panic # "" THEN T
                 ELSE [Iupdate([T EXCEPT !.ic[i].type = 0], i)
                         EXCEPT !.ic[i].valid = 0])
       ELSE F, LAMBDA G :
       IF G.d.panic # "" THEN G ELSE [G EXCEPT !.ic[i].ref = @ - 1])

\* fs.c 203-222: ialloc on a disk with the one dinode TestIno
Ialloc(F, dev, type) ==
  IF F.d.din.type = 0
  THEN Iget([F EXCEPT !.d.din = [FreeDinode EXCEPT !.type = type]], dev,
            TestIno)
  ELSE [F |-> FsPanic(F, "ialloc: no inodes"), ip |-> 0]

\* A name is a sequence of characters; a directory entry is one cell holding
\* the inode number and the first DIRSIZ characters of the name.
Chars == {1, 2}
\* the names of DIRSIZ characters, and names one character longer
PathNames ==
  [1..DIRSIZ -> Chars]
    \cup {nm \o <<MinOf(Chars)>> : nm \in [1..DIRSIZ -> Chars]}
DeBase == NINODE + 2
RECURSIVE NameCode(_)
NameCode(nm) ==
  IF nm = <<>> THEN 0 ELSE Head(nm) + (Cardinality(Chars) + 1) * NameCode(Tail(nm))
\* strncpy(de.name, name, DIRSIZ)
Strncpy(nm) == NameCode(SubSeq(nm, 1, Min(Len(nm), DIRSIZ)))
MkDirent(nm, inum) == Strncpy(nm) * DeBase + inum
DeInum(c) == c % DeBase
DeName(c) == c \div DeBase
\* fs.c 605-608: namecmp returns 0
Namecmp(nm, c) == Strncpy(nm) = DeName(c)

\* fs.c 623-636: the loop of dirlookup
RECURSIVE DirlookupLoop(_, _, _, _)
DirlookupLoop(F, dp, nm, off) ==
  IF off >= F.ic[dp].size \/ F.d.panic # ""
  THEN [F |-> F, ip |-> 0, off |-> off]
  ELSE With(Readi(F, dp, off, 1), LAMBDA r :
          IF r.ret # 1
          THEN [F |-> FsPanic(r.F, "dirlookup read"), ip |-> 0, off |-> off]
          ELSE IF DeInum(r.data[1]) = 0
          THEN DirlookupLoop(r.F, dp, nm, off + 1)
          ELSE IF Namecmp(nm, r.data[1])
          THEN With(Iget(r.F, F.ic[dp].dev, DeInum(r.data[1])), LAMBDA g :
                    [F |-> g.F, ip |-> g.ip, off |-> off])
          ELSE DirlookupLoop(r.F, dp, nm, off + 1))

\* fs.c 615-639: dirlookup
Dirlookup(F, dp, nm) ==
  IF F.ic[dp].type # T_DIR
  THEN [F |-> FsPanic(F, "dirlookup not DIR"), ip |-> 0, off |-> 0]
  ELSE DirlookupLoop(F, dp, nm, 0)

\* fs.c 658-663: the first empty entry, or the end of the directory
RECURSIVE EmptySlot(_, _, _)
EmptySlot(F, dp, off) ==
  IF off >= F.ic[dp].size \/ F.d.panic # "" THEN [F |-> F, off |-> off]
  ELSE With(Readi(F, dp, off, 1), LAMBDA r :
          IF r.ret # 1 THEN [F |-> FsPanic(r.F, "dirlink read"), off |-> off]
          ELSE IF DeInum(r.data[1]) = 0 THEN [F |-> r.F, off |-> off]
          ELSE EmptySlot(r.F, dp, off + 1))

\* fs.c 657-670: dirlink after the name was found absent
DirlinkWrite(F, dp, nm, inum) ==
  With(EmptySlot(F, dp, 0), LAMBDA e :
  With(Writei(e.F, dp, e.off, 1, MkDirent(nm, inum)), LAMBDA w :
       IF w.ret # 1 THEN [F |-> FsPanic(w.F, "dirlink"), ret |-> 0]
       ELSE [F |-> w.F, ret |-> 0]))
\* dirlink without the check that the name is present
DirlinkNoLookup(F, dp, nm, inum) == DirlinkWrite(F, dp, nm, inum)
\* fs.c 645-671: dirlink
Dirlink(F, dp, nm, inum) ==
  With(Dirlookup(F, dp, nm), LAMBDA l :
       IF l.F.d.panic # "" THEN [F |-> l.F, ret |-> 0]
       ELSE IF l.ip # 0 THEN [F |-> Iput(l.F, l.ip), ret |-> 0 - 1]
       ELSE DirlinkWrite(l.F, dp, nm, inum))

\* ------------------------------------------------- one process using fs.c
FsLive == fsd.panic = ""
F0 == [ic |-> ic, d |-> fsd]
\* the state after a call: result F, the process's record g; lw is kept
\* for direct calls of bmap and balloc only
FsDone(F, g) ==
  /\ ic' = F.ic
  /\ fsd' = [F.d EXCEPT !.lw = {}]
  /\ fg' = [g EXCEPT !.freed = fsd.used \ F.d.used]
  /\ UNCHANGED <<bcvars, logvars, wk, ilk, dk, allocvars>>
NoRead(g) == [g EXCEPT !.rd = <<>>, !.rdoff = 0 - 1, !.ret = 0, !.call = <<>>]

\* create(): ialloc, ilock, nlink = 1, iupdate; the inode stays locked
Create(type) ==
  /\ FsLive /\ fg.cur = 0 /\ fg.dup = 0 /\ fsd.din.type = 0
  /\ fg.nc < MaxCreate
  /\ LET r == Ialloc(F0, ROOTDEV, type)
         L == Ilock(r.F, r.ip)
     IN IF L.d.panic # "" THEN FsDone(L, NoRead(fg))
        ELSE FsDone(Iupdate([L EXCEPT !.ic[r.ip].nlink = 1], r.ip),
                    NoRead([fg EXCEPT !.cur = r.ip, !.exp = <<>>, !.nc = @ + 1]))

\* namei and ilock of the existing inode
Open ==
  /\ FsLive /\ fg.cur = 0 /\ fsd.din.type # 0
  /\ LET r == Iget(F0, ROOTDEV, TestIno)
         L == Ilock(r.F, r.ip)
     IN FsDone(L, NoRead([fg EXCEPT !.cur = IF L.d.panic # "" THEN 0 ELSE r.ip]))

\* iunlockput of the locked inode
Close ==
  /\ FsLive /\ fg.cur # 0
  /\ FsDone(Iput(F0, fg.cur), NoRead([fg EXCEPT !.cur = 0]))

\* idup: the process keeps a second reference, and iputs it later
IdupCall ==
  /\ FsLive /\ fg.cur # 0 /\ fg.dup = 0 /\ ic[fg.cur].ref < MaxRef
  /\ FsDone(Idup(F0, fg.cur), NoRead([fg EXCEPT !.dup = fg.cur]))
IputDup ==
  /\ FsLive /\ fg.dup # 0
  /\ FsDone(Iput(F0, fg.dup), NoRead([fg EXCEPT !.dup = 0]))

\* unlink(): the last link goes
Unlink ==
  /\ FsLive /\ fg.cur # 0 /\ ic[fg.cur].nlink > 0
  /\ FsDone(Iupdate([F0 EXCEPT !.ic[fg.cur].nlink = @ - 1], fg.cur),
            NoRead(fg))

NewExp(e, off, n, v) ==
  [k \in 1..(IF off + n > Len(e) THEN off + n ELSE Len(e)) |->
     IF k > off /\ k <= off + n THEN v ELSE e[k]]

\* every call writes n copies of a value no earlier call has written
WriteiCall(off, n) ==
  /\ FsLive /\ fg.cur # 0 /\ ic[fg.cur].type = T_FILE
  /\ fg.nw < MaxWrites
  /\ LET v == fg.nw + 1
         w == Writei(F0, fg.cur, off, n, v)
     IN FsDone(w.F, [NoRead(fg) EXCEPT !.ret = w.ret, !.nw = @ + 1,
                               !.exp = IF w.ret = n THEN NewExp(@, off, n, v)
                                       ELSE @])

ReadiCall(off) ==
  /\ FsLive /\ fg.cur # 0 /\ ic[fg.cur].type = T_FILE
  /\ LET r == Readi(F0, fg.cur, off, MAXFILE * BSIZE)
     IN FsDone(r.F, [fg EXCEPT !.ret = r.ret, !.rd = r.data, !.rdoff = off])

DirlinkCall(nm, inum) ==
  /\ FsLive /\ fg.cur # 0 /\ ic[fg.cur].type = T_DIR
  /\ LET r == Dirlink(F0, fg.cur, nm, inum)
     IN FsDone(r.F, [NoRead(fg) EXCEPT !.ret = r.ret,
                                     !.call = <<"dirlink", nm>>])

\* unlink(): the entry named nm is overwritten with an empty one
DirRemove(nm) ==
  /\ FsLive /\ fg.cur # 0 /\ ic[fg.cur].type = T_DIR
  /\ LET l == Dirlookup(F0, fg.cur, nm)
     IN /\ l.ip # 0
        /\ FsDone(Iput(Writei(l.F, fg.cur, l.off, 1, 0).F, l.ip), NoRead(fg))

\* other processes hold references to other inodes
OtherIget(inum) ==
  /\ FsLive
  /\ \A i \in fg.others : ic[i].inum # inum
  /\ LET r == Iget(F0, ROOTDEV, inum)
     IN FsDone(r.F, NoRead([fg EXCEPT !.others =
                               IF r.ip = 0 THEN @ ELSE @ \cup {r.ip}]))
OtherIput(i) ==
  /\ FsLive /\ i \in fg.others
  /\ FsDone(Iput(F0, i), NoRead([fg EXCEPT !.others = @ \ {i}]))

\* bmap(ip, bn) called on the locked file, as writei, readi and itrunc's
\* callers do, for any bn; the call counts among the MaxWrites calls
BmapCall(bn) ==
  /\ FsLive /\ fg.cur # 0 /\ ic[fg.cur].type = T_FILE
  /\ fg.nw < MaxWrites
  /\ LET r == Bmap(F0, fg.cur, bn)
     IN /\ ic' = r.F.ic
        /\ fsd' = r.F.d
        /\ fg' = [NoRead(fg) EXCEPT !.ret = r.a, !.nw = @ + 1,
                                    !.call = <<"bmap", bn>>, !.freed = {}]
  /\ UNCHANGED <<bcvars, logvars, wk, ilk, dk, allocvars>>

\* every offset inside the file, its end, and one offset beyond the end
WriteOffs == IF fg.cur = 0 THEN {} ELSE 0..(ic[fg.cur].size + 1)

\* the process works on a file
NextFs ==
  \/ Create(T_FILE)
  \/ Open
  \/ Close
  \/ IdupCall
  \/ IputDup
  \/ Unlink
  \/ \E off \in WriteOffs, n \in {1, MaxWrite} : WriteiCall(off, n)
  \/ \E off \in {0, BSIZE + 1} : ReadiCall(off)

\* writei(ip, off, n) for any off and n, of a value no earlier call wrote
WriteiArgs(off, n) ==
  /\ FsLive /\ fg.cur # 0 /\ ic[fg.cur].type = T_FILE
  /\ fg.nw < MaxWrites
  /\ LET v == fg.nw + 1
         w == Writei(F0, fg.cur, off, n, v)
     IN FsDone(w.F, [NoRead(fg) EXCEPT !.ret = w.ret, !.nw = @ + 1,
                               !.call = <<"writei", off, n>>,
                               !.exp = IF w.ret = n THEN NewExp(@, off, n, v)
                                       ELSE @])

\* readi(ip, off, n) for any off and n
ReadiArgs(off, n) ==
  /\ FsLive /\ fg.cur # 0 /\ ic[fg.cur].type = T_FILE
  /\ LET r == Readi(F0, fg.cur, off, n)
     IN FsDone(r.F, [NoRead(fg) EXCEPT !.ret = r.ret,
                                      !.call = <<"readi", off, n>>])

\* the lengths of the calls: one cell, the largest file, and one that
\* makes off + n wrap for every off > 0
ArgLens == {1, MAXFILE * BSIZE, UINTSZ - 1}
\* the offsets: the start of the file, inside it, its end, beyond its end
ArgOffs == IF fg.cur = 0 THEN {} ELSE {0, 1, ic[fg.cur].size, ic[fg.cur].size + 1}
\* the process reads and writes a file with arguments of every kind
NextArgs ==
  \/ Create(T_FILE)
  \/ Close
  \/ \E off \in ArgOffs, n \in ArgLens : WriteiArgs(off, n)
  \/ \E off \in ArgOffs, n \in ArgLens : ReadiArgs(off, n)

\* the process works on a file and maps its blocks one by one
NextBmap ==
  \/ Create(T_FILE)
  \/ Close
  \/ Unlink
  \/ \E off \in WriteOffs : WriteiCall(off, 1)
  \/ \E bn \in 0..(MAXFILE + 1) : BmapCall(bn)

\* the process works on a directory while other processes hold inodes
NextDir ==
  \/ Create(T_DIR)
  \/ \E nm \in PathNames, inum \in DirInums : DirlinkCall(nm, inum)
  \/ \E nm \in [1..DIRSIZ -> Chars] : DirRemove(nm)
  \/ \E inum \in OtherInums : OtherIget(inum)
  \/ \E i \in Slots : OtherIput(i)

\* ------------------------------------------------ concurrent path walks
\* The tree on disk: / holds the directories a and b and the file f, a holds
\* b, b holds a, and ".." of a and b is /.
DirA == ROOTINO + 1
DirB == ROOTINO + 2
FileF == ROOTINO + 3
WalkInums == {ROOTINO, DirA, DirB, FileF}
WalkNames == {"a", "b", "f", ".."}
NoEnts == [n \in WalkNames |-> 0]
Tree0 ==
  [i \in WalkInums |->
     IF i = ROOTINO
     THEN [type |-> T_DIR, nlink |-> 1,
           ents |-> [n \in WalkNames |->
                       IF n = "a" THEN DirA ELSE IF n = "b" THEN DirB
                       ELSE IF n = "f" THEN FileF ELSE ROOTINO]]
     ELSE IF i = DirA
     THEN [type |-> T_DIR, nlink |-> 1,
           ents |-> [NoEnts EXCEPT !["b"] = DirB, ![".."] = ROOTINO]]
     ELSE IF i = DirB
     THEN [type |-> T_DIR, nlink |-> 1,
           ents |-> [NoEnts EXCEPT !["a"] = DirA, ![".."] = ROOTINO]]
     ELSE [type |-> T_FILE, nlink |-> 1, ents |-> NoEnts]]
\* the calls of namei (parent FALSE) and nameiparent: crossing paths, a path
\* through "..", a path through a file, a missing name, the empty path
WalkCalls ==
  {<<p, FALSE>> : p \in {<<"a", "b">>, <<"b", "a">>, <<"a", "..">>, <<"f">>,
                         <<"f", "a">>, <<"b", "f">>, <<>>}}
  \cup {<<p, TRUE>> : p \in {<<"a", "b">>, <<>>}}
WalkerInit ==
  [pc |-> "idle", ip |-> 0, next |-> 0, path |-> <<>>, name |-> "",
   parent |-> FALSE, k |-> "", cwd |-> RootSlot, n |-> 0]

WalkInit ==
  /\ wk = [t \in Walkers |-> WalkerInit]
  /\ ilk = [i \in Slots |-> 0]
  /\ dk = [ino |-> Tree0, icl |-> 0, panic |-> ""]

WLive == dk.panic = ""
W0 == [ic |-> ic, d |-> dk]
\* icache.lock can be acquired
IcacheFree == dk.icl = 0
WalkOthers == UNCHANGED <<bcvars, logvars, fsd, fg, allocvars>>

\* releasesleep(&ip->lock)
ReleasesleepKeep(l, i) == l
Releasesleep(l, i) == [l EXCEPT ![i] = 0]

\* fs.c 728-731: iget of the root, or idup of the cwd
NamexStart(t, path, abs, parent) ==
  /\ WLive /\ IcacheFree
  /\ wk[t].pc = "idle" /\ wk[t].n < MaxWalks
  /\ LET r == IF abs THEN Iget(W0, ROOTDEV, ROOTINO)
              ELSE [F |-> Idup(W0, wk[t].cwd), ip |-> wk[t].cwd]
     IN /\ ic' = r.F.ic
        /\ dk' = r.F.d
        /\ wk' = [wk EXCEPT ![t] = [@ EXCEPT !.pc = "loop", !.ip = r.ip,
                                      !.path = path, !.parent = parent,
                                      !.n = @ + 1]]
  /\ UNCHANGED ilk
  /\ WalkOthers

\* after an iput: return 0, or ip = next and the next round of the loop
Continue(w) ==
  IF w.k = "next"
  THEN [w EXCEPT !.pc = "loop", !.ip = w.next, !.next = 0, !.k = ""]
  ELSE [w EXCEPT !.pc = "idle", !.ip = 0, !.next = 0, !.k = "",
                 !.path = <<>>, !.name = "", !.parent = FALSE]

\* fs.c 733, 753-759: skipelem, and the return after the loop
NamexLoop(t) ==
  /\ WLive /\ wk[t].pc = "loop"
  /\ wk' = [wk EXCEPT ![t] =
              IF wk[t].path = <<>>
              THEN IF wk[t].parent THEN [@ EXCEPT !.pc = "iput", !.k = "ret0"]
                   ELSE [@ EXCEPT !.pc = "have", !.name = ""]
              ELSE [@ EXCEPT !.pc = "ilock", !.name = Head(wk[t].path),
                             !.path = Tail(wk[t].path)]]
  /\ UNCHANGED <<ic, ilk, dk>>
  /\ WalkOthers

\* fs.c 734, 307-331: ilock(ip)
NamexIlock(t) ==
  /\ WLive /\ wk[t].pc = "ilock"
  /\ LET i == wk[t].ip
         d == dk.ino[ic[i].inum]
     IN IF ic[i].ref < 1
        THEN /\ dk' = [dk EXCEPT !.panic = "ilock"]
             /\ UNCHANGED <<ic, ilk, wk>>
        ELSE /\ ilk[i] = 0
             /\ ilk' = [ilk EXCEPT ![i] = t]
             /\ wk' = [wk EXCEPT ![t].pc = "locked"]
             /\ IF ic[i].valid = 0
                THEN /\ ic' = [ic EXCEPT ![i].type = d.type,
                                         ![i].nlink = d.nlink,
                                         ![i].valid = 1]
                     /\ dk' = IF d.type = 0
                              THEN [dk EXCEPT !.panic = "ilock: no type"]
                              ELSE dk
                ELSE UNCHANGED <<ic, dk>>
  /\ WalkOthers

\* a loop body that returns 0 for a missing name after an iunlock alone
NamexLockedNoPut(t) ==
  /\ WLive /\ wk[t].pc = "locked"
  /\ LET i == wk[t].ip
         inum == dk.ino[ic[i].inum].ents[wk[t].name]
     IN IF ic[i].type # T_DIR
        THEN /\ wk' = [wk EXCEPT ![t].pc = "iunlock", ![t].k = "ret0"]
             /\ UNCHANGED <<ic, ilk, dk>>
        ELSE IF wk[t].parent /\ wk[t].path = <<>>
        THEN /\ ilk' = Releasesleep(ilk, i)
             /\ wk' = [wk EXCEPT ![t].pc = "have", ![t].name = "",
                                 ![t].parent = FALSE]
             /\ UNCHANGED <<ic, dk>>
        ELSE IF inum = 0
        THEN /\ ilk' = Releasesleep(ilk, i)
             /\ wk' = [wk EXCEPT ![t] = Continue([@ EXCEPT !.k = "ret0"])]
             /\ UNCHANGED <<ic, dk>>
        ELSE /\ IcacheFree
             /\ LET r == Iget(W0, ic[i].dev, inum)
                IN /\ ic' = r.F.ic
                   /\ dk' = r.F.d
                   /\ wk' = [wk EXCEPT ![t].pc = "iunlock", ![t].k = "next",
                                       ![t].next = r.ip]
             /\ UNCHANGED ilk
  /\ WalkOthers

\* fs.c 736-749: the body of the loop up to the iunlock
NamexLocked(t) ==
  /\ WLive /\ wk[t].pc = "locked"
  /\ LET i == wk[t].ip
         inum == dk.ino[ic[i].inum].ents[wk[t].name]
     IN IF ic[i].type # T_DIR
        THEN /\ wk' = [wk EXCEPT ![t].pc = "iunlock", ![t].k = "ret0"]
             /\ UNCHANGED <<ic, ilk, dk>>
        ELSE IF wk[t].parent /\ wk[t].path = <<>>
        THEN /\ ilk' = Releasesleep(ilk, i)
             /\ wk' = [wk EXCEPT ![t].pc = "have", ![t].name = "",
                                 ![t].parent = FALSE]
             /\ UNCHANGED <<ic, dk>>
        ELSE IF inum = 0
        THEN /\ wk' = [wk EXCEPT ![t].pc = "iunlock", ![t].k = "ret0"]
             /\ UNCHANGED <<ic, ilk, dk>>
        ELSE /\ IcacheFree
             /\ LET r == Iget(W0, ic[i].dev, inum)
                IN /\ ic' = r.F.ic
                   /\ dk' = r.F.d
                   /\ wk' = [wk EXCEPT ![t].pc = "iunlock", ![t].k = "next",
                                       ![t].next = r.ip]
             /\ UNCHANGED ilk
  /\ WalkOthers

\* fs.c 391-395, 336-342: the iunlock of iunlockput
NamexIunlock(t) ==
  /\ WLive /\ wk[t].pc = "iunlock"
  /\ ilk' = Releasesleep(ilk, wk[t].ip)
  /\ wk' = [wk EXCEPT ![t].pc = "iput"]
  /\ UNCHANGED <<ic, dk>>
  /\ WalkOthers

\* an iput that destroys the inode whatever its ref
WalkIputAnyRef(t) ==
  /\ WLive
  /\ \/ wk[t].pc = "iput" /\ IcacheFree
     \/ wk[t].pc = "iput_sleep"
  /\ LET i == wk[t].ip
     IN IF wk[t].pc = "iput_sleep"
           \/ (ic[i].valid # 0 /\ ic[i].nlink = 0)
        THEN IF ilk[i] = 0
             THEN /\ ilk' = [ilk EXCEPT ![i] = t]
                  /\ dk' = [dk EXCEPT !.icl = 0]
                  /\ wk' = [wk EXCEPT ![t].pc = "itrunc"]
                  /\ UNCHANGED ic
             ELSE /\ wk[t].pc = "iput"
                  /\ dk' = [dk EXCEPT !.icl = t]
                  /\ wk' = [wk EXCEPT ![t].pc = "iput_sleep"]
                  /\ UNCHANGED <<ic, ilk>>
        ELSE /\ ic' = [ic EXCEPT ![i].ref = @ - 1]
             /\ wk' = [wk EXCEPT ![t] = Continue(@)]
             /\ UNCHANGED <<ilk, dk>>
  /\ WalkOthers

\* fs.c 364-373, 385-386: iput up to the release of icache.lock; an
\* acquiresleep that finds ip->lock held sleeps with icache.lock held
WalkIput(t) ==
  /\ WLive
  /\ \/ wk[t].pc = "iput" /\ IcacheFree
     \/ wk[t].pc = "iput_sleep"
  /\ LET i == wk[t].ip
     IN IF wk[t].pc = "iput_sleep"
           \/ (ic[i].ref = 1 /\ ic[i].valid # 0 /\ ic[i].nlink = 0)
        THEN IF ilk[i] = 0
             THEN /\ ilk' = [ilk EXCEPT ![i] = t]
                  /\ dk' = [dk EXCEPT !.icl = 0]
                  /\ wk' = [wk EXCEPT ![t].pc = "itrunc"]
                  /\ UNCHANGED ic
             ELSE /\ wk[t].pc = "iput"
                  /\ dk' = [dk EXCEPT !.icl = t]
                  /\ wk' = [wk EXCEPT ![t].pc = "iput_sleep"]
                  /\ UNCHANGED <<ic, ilk>>
        ELSE /\ ic' = [ic EXCEPT ![i].ref = @ - 1]
             /\ wk' = [wk EXCEPT ![t] = Continue(@)]
             /\ UNCHANGED <<ilk, dk>>
  /\ WalkOthers

\* fs.c 375-380: itrunc, type = 0, iupdate, valid = 0, releasesleep
WalkItrunc(t) ==
  /\ WLive /\ wk[t].pc = "itrunc"
  /\ LET i == wk[t].ip
     IN /\ ic' = [ic EXCEPT ![i].type = 0, ![i].size = 0, ![i].valid = 0]
        /\ dk' = [dk EXCEPT !.ino[ic[i].inum] =
                    [type |-> 0, nlink |-> ic[i].nlink, ents |-> NoEnts]]
        /\ ilk' = Releasesleep(ilk, i)
  /\ wk' = [wk EXCEPT ![t].pc = "iput_dec"]
  /\ WalkOthers

\* fs.c 382-386: ref-- under icache.lock
WalkIputDec(t) ==
  /\ WLive /\ IcacheFree /\ wk[t].pc = "iput_dec"
  /\ ic' = [ic EXCEPT ![wk[t].ip].ref = @ - 1]
  /\ wk' = [wk EXCEPT ![t] = Continue(@)]
  /\ UNCHANGED <<ilk, dk>>
  /\ WalkOthers

\* the caller of namei iputs the inode it got
WalkRelease(t) ==
  /\ WLive /\ wk[t].pc = "have"
  /\ wk' = [wk EXCEPT ![t].pc = "iput", ![t].k = "ret0"]
  /\ UNCHANGED <<ic, ilk, dk>>
  /\ WalkOthers

\* the entry of inode inum's cache slot is not sleep-locked
Unlocked(inum) ==
  \A i \in Slots : (ic[i].ref > 0 /\ ic[i].inum = inum) => ilk[i] = 0

\* unlink("/f") by a further process, in one step: the entry goes, nlink
\* becomes 0, and the iput of unlink destroys the inode if it holds the only
\* reference
SysUnlink ==
  /\ WLive /\ IcacheFree
  /\ dk.ino[ROOTINO].ents["f"] = FileF
  /\ Unlocked(ROOTINO) /\ Unlocked(FileF)
  /\ LET r == Iget(W0, ROOTDEV, FileF)
         i == r.ip
     IN IF i = 0 THEN /\ dk' = r.F.d /\ UNCHANGED ic
        ELSE IF r.F.ic[i].ref = 1
        THEN /\ ic' = [r.F.ic EXCEPT ![i].ref = 0, ![i].valid = 0,
                                     ![i].type = 0, ![i].nlink = 0]
             /\ dk' = [dk EXCEPT !.ino[ROOTINO].ents["f"] = 0,
                                 !.ino[FileF] =
                                   [type |-> 0, nlink |-> 0, ents |-> NoEnts]]
        ELSE /\ ic' = [r.F.ic EXCEPT ![i].ref = @ - 1, ![i].valid = 1,
                                     ![i].type = dk.ino[FileF].type,
                                     ![i].nlink = 0]
             /\ dk' = [dk EXCEPT !.ino[ROOTINO].ents["f"] = 0,
                                 !.ino[FileF].nlink = 0]
  /\ UNCHANGED <<wk, ilk>>
  /\ WalkOthers

WalkerStep(t) ==
  \/ \E c \in WalkCalls, abs \in BOOLEAN : NamexStart(t, c[1], abs, c[2])
  \/ NamexLoop(t)
  \/ NamexIlock(t)
  \/ NamexLocked(t)
  \/ NamexIunlock(t)
  \/ WalkIput(t)
  \/ WalkItrunc(t)
  \/ WalkIputDec(t)
  \/ WalkRelease(t)

NextWalk ==
  \/ \E t \in Walkers : WalkerStep(t)
  \/ SysUnlink

\* ------------------------------------------- concurrent balloc and bfree
\* NALLOC processes allocate and free blocks of one disk of SBSIZE blocks.
\* Block 0 stands for the blocks in front of the data blocks (boot block,
\* superblock, log, inodes, bitmap), which mkfs marks as used; the bitmap is
\* one block (sb.size < BPB).  bread returns the buffer sleep-locked and
\* brelse unlocks it.
Allocators == 1..NALLOC
DiskBlocks == 0..(SBSIZE - 1)
BaProc == [pc |-> "idle", b |-> 0, got |-> {}, lw |-> {}]
BaInit ==
  ba = [bits |-> {0}, zero |-> [b \in DiskBlocks |-> TRUE], lock |-> 0,
        pr |-> [p \in Allocators |-> BaProc], panic |-> ""]
BaLive == ba.panic = ""
BaOthers == UNCHANGED <<bcvars, logvars, fsvars, km>>
\* the clear bits below sb.size
ClearBits == {b \in DiskBlocks : b \notin ba.bits}

\* a bread of the bitmap block that does not wait for the buffer's lock
BallocBreadNoLock(p) ==
  /\ BaLive /\ ba.pr[p].pc = "idle"
  /\ ba' = [ba EXCEPT !.pr[p].pc = "scan", !.pr[p].lw = {}]
  /\ BaOthers

\* fs.c 71-72: balloc: bread of the bitmap block
BallocBread(p) ==
  /\ BaLive /\ ba.pr[p].pc = "idle"
  /\ ba.lock = 0
  /\ ba' = [ba EXCEPT !.lock = p, !.pr[p].pc = "scan", !.pr[p].lw = {}]
  /\ BaOthers

\* fs.c 73-75, 83-86: the scan up to the first clear bit; when there is
\* none, brelse and panic
BallocScan(p) ==
  /\ BaLive /\ ba.pr[p].pc = "scan"
  /\ IF ClearBits = {}
     THEN ba' = [ba EXCEPT !.lock = IF @ = p THEN 0 ELSE @,
                           !.panic = "balloc: out of blocks"]
     ELSE ba' = [ba EXCEPT !.pr[p].pc = "mark", !.pr[p].b = MinOf(ClearBits)]
  /\ BaOthers

\* fs.c 76-78: set the bit, log_write and brelse of the bitmap block
BallocMark(p) ==
  /\ BaLive /\ ba.pr[p].pc = "mark"
  /\ ba' = [ba EXCEPT !.bits = @ \cup {ba.pr[p].b},
                      !.lock = IF @ = p THEN 0 ELSE @,
                      !.pr[p].lw = @ \cup {0},
                      !.pr[p].pc = "bzero"]
  /\ BaOthers

\* fs.c 56-63, 79-80: bzero (the block goes through log_write) and return
BallocBzero(p) ==
  /\ BaLive /\ ba.pr[p].pc = "bzero"
  /\ ba' = [ba EXCEPT !.zero[ba.pr[p].b] = TRUE,
                      !.pr[p].lw = @ \cup {ba.pr[p].b},
                      !.pr[p].got = @ \cup {ba.pr[p].b},
                      !.pr[p].pc = "idle"]
  /\ BaOthers

\* the caller writes into a block it was given
BlockWrite(p, b) ==
  /\ BaLive /\ ba.pr[p].pc = "idle"
  /\ b \in ba.pr[p].got /\ ba.zero[b]
  /\ ba' = [ba EXCEPT !.zero[b] = FALSE]
  /\ BaOthers

\* fs.c 97: bfree of a block the caller was given: bread of the bitmap block
BfreeBread(p, b) ==
  /\ BaLive /\ ba.pr[p].pc = "idle"
  /\ b \in ba.pr[p].got
  /\ ba.lock = 0
  /\ ba' = [ba EXCEPT !.lock = p, !.pr[p].pc = "bfree", !.pr[p].b = b,
                      !.pr[p].got = @ \ {b}, !.pr[p].lw = {}]
  /\ BaOthers

\* fs.c 98-104: test and clear the bit, log_write, brelse
BfreeClear(p) ==
  /\ BaLive /\ ba.pr[p].pc = "bfree"
  /\ IF ba.pr[p].b \notin ba.bits
     THEN ba' = [ba EXCEPT !.panic = "freeing free block"]
     ELSE ba' = [ba EXCEPT !.bits = @ \ {ba.pr[p].b}, !.lock = 0,
                           !.pr[p].lw = @ \cup {0},
                           !.pr[p].pc = "idle"]
  /\ BaOthers

AllocStep(p) ==
  \/ BallocBread(p)
  \/ BallocScan(p)
  \/ BallocMark(p)
  \/ BallocBzero(p)
  \/ \E b \in DiskBlocks : BlockWrite(p, b)
  \/ \E b \in DiskBlocks : BfreeBread(p, b)
  \/ BfreeClear(p)
NextAlloc == \E p \in Allocators : AllocStep(p)

\* --------------------------------------------------------------- kalloc.c
\* Every CPU has a free list kmem[cpu].freelist of pages linked by their first
\* word (struct run), a spinlock kmem[cpu].lock and a spinlock
\* kmem[cpu].stealing_lock.  push_off keeps a CPU in one kalloc or kfree at a
\* time.  Page 0 is the null pointer.
Cpus == 0..(NCPU - 1)
Pages == 1..NPAGE
\* the locals of the call a CPU is in: r, rr, i, steal_left and pa; n counts
\* the CPU's calls, and alone tells that no other CPU has been in a call since
\* this call began
KmCpu == [pc |-> "idle", r |-> 0, rr |-> 0, i |-> 0, left |-> 0, pa |-> 0,
          alone |-> FALSE, n |-> 0]
\* kalloc.c 50-66: kinit runs on CPU 0 and kfrees every page in ascending
\* order, so that all pages are on CPU 0's list, the highest in front
KmInit ==
  km = [freelist |-> [c \in Cpus |-> IF c = 0 THEN NPAGE ELSE 0],
        next |-> [p \in Pages |-> p - 1],
        lock |-> [c \in Cpus |-> NoCpu],
        slk |-> [c \in Cpus |-> NoCpu],
        cpu |-> [c \in Cpus |-> KmCpu],
        out |-> {},
        fault |-> FALSE]

KmLive == ~km.fault
KmOthers == UNCHANGED <<bcvars, logvars, fsvars, ba>>
\* the CPUs' locals when CPU c begins a call with the locals w
KmBegin(c, w) ==
  [d \in Cpus |->
     IF d = c
     THEN [w EXCEPT !.n = @ + 1,
                    !.alone = \A e \in Cpus \ {c} : km.cpu[e].pc = "idle"]
     ELSE [km.cpu[d] EXCEPT !.alone = FALSE]]
\* the CPUs' locals when CPU c returns from a call
KmReturn(c) == [km.cpu EXCEPT ![c] = [KmCpu EXCEPT !.n = km.cpu[c].n]]

\* kalloc.c 102-107: the local r is not initialised (g is what it happens to
\* hold: 0, or 1 for any other value); acquire(&kmem[cpu].lock)
KallocAcquire(c, g) ==
  /\ KmLive /\ km.cpu[c].pc = "idle" /\ km.cpu[c].n < MaxKops
  /\ km.lock[c] = NoCpu
  /\ km' = [km EXCEPT !.lock[c] = c,
                      !.cpu = KmBegin(c, [km.cpu[c] EXCEPT !.pc = "test",
                                                            !.r = g])]
  /\ KmOthers

\* kalloc.c 108-111: the test of the own list; acquire of the stealing_lock
\* (which only this CPU ever takes), release of the own lock, steal_left
KallocTest(c) ==
  /\ KmLive /\ km.cpu[c].pc = "test"
  /\ IF km.freelist[c] # 0
     THEN km' = [km EXCEPT !.cpu[c].pc = "pop"]
     ELSE /\ km.slk[c] = NoCpu
          /\ km' = [km EXCEPT !.slk[c] = c, !.lock[c] = NoCpu,
                              !.cpu[c].pc = "for", !.cpu[c].left = STEAL,
                              !.cpu[c].i = 0]
  /\ KmOthers

\* kalloc.c 112-117: the head of the for loop, acquire(&kmem[i].lock) and
\* rr = kmem[i].freelist
KallocFor(c) ==
  /\ KmLive /\ km.cpu[c].pc = "for"
  /\ LET i == km.cpu[c].i
     IN IF i >= NCPU
        THEN km' = [km EXCEPT !.cpu[c].pc = "relock"]
        ELSE IF i = c
        THEN km' = [km EXCEPT !.cpu[c].i = i + 1]
        ELSE /\ km.lock[i] = NoCpu
             /\ km' = [km EXCEPT !.lock[i] = c, !.cpu[c].pc = "while",
                                 !.cpu[c].rr = km.freelist[i]]
  /\ KmOthers

\* kalloc.c 118-119: while (r && steal_left), which tests r and not rr, and
\* kmem[i].freelist = rr->next, a load through rr that faults when rr is null
KallocWhile(c) ==
  /\ KmLive /\ km.cpu[c].pc = "while"
  /\ LET w == km.cpu[c]
     IN IF w.r # 0 /\ w.left # 0
        THEN IF w.rr = 0
             THEN km' = [km EXCEPT !.fault = TRUE]
             ELSE km' = [km EXCEPT !.freelist[w.i] = km.next[w.rr],
                                   !.cpu[c].pc = "link"]
        ELSE km' = [km EXCEPT !.cpu[c].pc = "endfor"]
  /\ KmOthers

\* kalloc.c 120: rr->next = kmem[cpu].freelist, read without kmem[cpu].lock
KallocLink(c) ==
  /\ KmLive /\ km.cpu[c].pc = "link"
  /\ km' = [km EXCEPT !.next[km.cpu[c].rr] = km.freelist[c],
                      !.cpu[c].pc = "push"]
  /\ KmOthers

\* kalloc.c 121-123: kmem[cpu].freelist = rr, written without
\* kmem[cpu].lock; rr = kmem[i].freelist; steal_left--
KallocPush(c) ==
  /\ KmLive /\ km.cpu[c].pc = "push"
  /\ LET w == km.cpu[c]
     IN km' = [km EXCEPT !.freelist[c] = w.rr,
                         !.cpu[c].rr = km.freelist[w.i],
                         !.cpu[c].left = w.left - 1,
                         !.cpu[c].pc = "while"]
  /\ KmOthers

\* kalloc.c 125-128: release(&kmem[i].lock), break or i++
KallocEndFor(c) ==
  /\ KmLive /\ km.cpu[c].pc = "endfor"
  /\ LET w == km.cpu[c]
     IN km' = [km EXCEPT !.lock[w.i] = NoCpu,
                         !.cpu[c].rr = 0,
                         !.cpu[c].pc = IF w.left = 0 THEN "relock" ELSE "for",
                         !.cpu[c].i = IF w.left = 0 THEN w.i ELSE w.i + 1]
  /\ KmOthers

\* kalloc.c 130-131: acquire(&kmem[cpu].lock), release of the stealing_lock
KallocRelock(c) ==
  /\ KmLive /\ km.cpu[c].pc = "relock"
  /\ km.lock[c] = NoCpu
  /\ km' = [km EXCEPT !.lock[c] = c, !.slk[c] = NoCpu, !.cpu[c].pc = "pop"]
  /\ KmOthers

\* kalloc.c 134-143: r = kmem[cpu].freelist, the pop, the release and the
\* return of r; out holds the pages the callers have
KallocPop(c) ==
  /\ KmLive /\ km.cpu[c].pc = "pop"
  /\ LET r == km.freelist[c]
     IN km' = [km EXCEPT !.freelist[c] = IF r # 0 THEN km.next[r] ELSE 0,
                         !.lock[c] = NoCpu,
                         !.out = IF r # 0 THEN @ \cup {r} ELSE @,
                         !.cpu = KmReturn(c)]
  /\ KmOthers

\* kalloc.c 73-88: kfree(pa) of a page that kalloc returned (the test of line
\* 77 passes), up to acquire(&kmem[cpu].lock)
KfreeAcquire(c, pa) ==
  /\ KmLive /\ km.cpu[c].pc = "idle" /\ km.cpu[c].n < MaxKops
  /\ pa \in km.out
  /\ km.lock[c] = NoCpu
  /\ km' = [km EXCEPT !.lock[c] = c, !.out = @ \ {pa},
                      !.cpu = KmBegin(c, [km.cpu[c] EXCEPT !.pc = "free",
                                                            !.pa = pa])]
  /\ KmOthers

\* kalloc.c 89-93: the push onto the own list under the own lock
KfreePush(c) ==
  /\ KmLive /\ km.cpu[c].pc = "free"
  /\ km' = [km EXCEPT !.next[km.cpu[c].pa] = km.freelist[c],
                      !.freelist[c] = km.cpu[c].pa,
                      !.lock[c] = NoCpu,
                      !.cpu = KmReturn(c)]
  /\ KmOthers

KmStep(c) ==
  \/ \E g \in {0, 1} : KallocAcquire(c, g)
  \/ KallocTest(c)
  \/ KallocFor(c)
  \/ KallocWhile(c)
  \/ KallocLink(c)
  \/ KallocPush(c)
  \/ KallocEndFor(c)
  \/ KallocRelock(c)
  \/ KallocPop(c)
  \/ \E pa \in Pages : KfreeAcquire(c, pa)
  \/ KfreePush(c)
NextKalloc == \E c \in Cpus : KmStep(c)

Init == BcInit /\ LogInit /\ FsInit /\ WalkInit /\ BaInit /\ KmInit

Spec == Init /\ [][Next]_vars

SpecFs == Init /\ [][NextFs]_vars
SpecWalk == Init /\ [][NextWalk]_vars
SpecWalkFair == SpecWalk /\ \A t \in Walkers : WF_vars(WalkerStep(t))
SpecDir == Init /\ [][NextDir]_vars
SpecLog == Init /\ [][NextLog]_vars
SpecBmap == Init /\ [][NextBmap]_vars
SpecKalloc == Init /\ [][NextKalloc]_vars
SpecAlloc == Init /\ [][NextAlloc]_vars
SpecArgs == Init /\ [][NextArgs]_vars

\* ================================================================ claims
InBget(t) ==
  th[t].pc \in {"bget_fast", "bget_evlock", "bget_rescan", "bget_rehit",
                "bget_rehit_sleep", "bget_lru", "bget_victim", "bget_relink",
                "bget_install", "bget_sleep"}
\* the thread stopped inside bget: by a panic, or in acquiresleep on a
\* sleep-lock it holds itself
StoppedInBget(t) ==
  \/ th[t].pc = "panic" /\ th[t].msg \in {"release", "bget: no buffers"}
  \/ th[t].pc \in {"bget_rehit_sleep", "bget_sleep"} /\ slock[th[t].b] = t
FreeBuffer == \E b \in Bufs : buf[b].refcnt = 0

\* C1: at most one buffer with refcnt > 0 carries a given (dev, blockno).
C1_BufferUniqueness ==
  \A b1 \in Bufs : \A b2 \in Bufs :
    (b1 # b2 /\ buf[b1].refcnt # 0 /\ buf[b2].refcnt # 0)
      => (buf[b1].dev # buf[b2].dev \/ buf[b1].blockno # buf[b2].blockno)

\* C4: a step changes a buffer's dev or blockno, or recycles it (lines
\* 151-154), only when its refcnt is 0 before the step; and a buffer a caller
\* holds from bread keeps the identity the caller asked for.
C4_Step ==
  /\ \A b \in Bufs :
       (buf'[b].dev # buf[b].dev \/ buf'[b].blockno # buf[b].blockno)
         => buf[b].refcnt = 0
  /\ \A t \in Threads :
       (th[t].pc = "bget_install" /\ th'[t].pc # "bget_install")
         => buf[th[t].b].refcnt = 0
  /\ \A t \in Threads : \A h \in th'[t].held :
       buf'[h[1]].dev = ROOTDEV /\ buf'[h[1]].blockno = h[2]
C4_IdentityStable == [][C4_Step]_vars
\* a buffer recycled for a second block while a thread holds another buffer
C4_Witness ==
  \E t \in Threads : \E u \in Threads :
    /\ th[t].pc = "bget_sleep" /\ buf[th[t].b].blockno = th[t].blockno
    /\ th[u].held # {}

\* C5: when bread returns, the buffer carries the dev and blockno asked for,
\* valid is 1, refcnt >= 1, the caller holds its sleep-lock, and the disk was
\* read in this call exactly when bget returned the buffer with valid == 0.
C5_BreadReturn ==
  \A t \in Threads :
    th[t].pc = "bread_ret" =>
      /\ buf[th[t].b].dev = ROOTDEV
      /\ buf[th[t].b].blockno = th[t].blockno
      /\ buf[th[t].b].valid = 1
      /\ buf[th[t].b].refcnt >= 1
      /\ slock[th[t].b] = t
      /\ (th[t].rd <=> th[t].v0 = 0)
C5_Witness ==
  \E t \in Threads : th[t].pc = "bread_ret" /\ th[t].rd /\ th[t].blockno = 18

\* C6: the data bread returns for a block is the data of the last bwrite to
\* that block, or the disk's content when there was none.
C6_Coherence ==
  \A t \in Threads :
    th[t].pc = "bread_ret" => buf[th[t].b].data = lastw[th[t].blockno]
\* a block written with new data, evicted, and read again
C6_Witness ==
  \E t \in Threads :
    /\ th[t].pc = "bread_ret"
    /\ lastw[th[t].blockno] = 1
    /\ buf[th[t].b].data = 1

\* C7: while a buffer with refcnt == 0 exists, no bget call is stopped for
\* good (every call returns).
C7_BgetReturns ==
  \A t \in Threads : FreeBuffer => ~StoppedInBget(t)

\* C8: a bget miss ends in a panic only with "bget: no buffers", and only
\* when every buffer has refcnt > 0.
C8_MissPanic ==
  \A t \in Threads :
    (th[t].pc = "panic" /\ th[t].evicting)
      => (th[t].msg = "bget: no buffers" /\ ~FreeBuffer)

\* C9: a buffer pinned by bpin keeps refcnt >= 1, keeps caching the block it
\* was pinned for, and is not the victim of any bget, until bunpin.
C9_PinInvariant ==
  \A b \in Bufs :
    pins[b] # 0 =>
      /\ buf[b].refcnt >= 1
      /\ buf[b].dev = ROOTDEV /\ buf[b].blockno = pins[b]
      /\ buf[b].valid = 1
      /\ \A t \in Threads :
           th[t].pc \in {"bget_relink", "bget_install"} => th[t].b # b
\* a pinned buffer that its holder has released, while another thread evicts
C9_Witness ==
  \E b \in Bufs : \E t \in Threads :
    /\ pins[b] # 0 /\ slock[b] = 0 /\ buf[b].refcnt = 1
    /\ th[t].pc = "bget_install"


\* ------------------------------------------------------------ log claims
\* the transaction x as seen on the disk's home blocks
AllNew(x) == \A b \in x.blocks : ldisk.home[b] = x.pay[b]
AllOld(x) == \A b \in x.blocks : ldisk.home[b] = x.pre[b]
LoggedBlocks == {log.block[i] : i \in 1..log.n}

C10_Absorption ==
  /\ \A i \in 1..log.n : \A j \in 1..log.n :
       i # j => log.block[i] # log.block[j]
  /\ (boot.pc = "run" /\ LogLive /\ ~log.committing) =>
       /\ log.n = Cardinality(tx.cur.blocks)
       /\ LoggedBlocks = tx.cur.blocks
       /\ \A b \in HomeBlocks : lpin[b] = IF b \in LoggedBlocks THEN 1 ELSE 0
C10_Witness ==
  /\ boot.pc = "run" /\ ~log.committing
  /\ tx.absorbed
  /\ log.n = 1
  /\ \E b \in LoggedBlocks : lpin[b] = 1


\* C11: when every operation logs at most MAXOPBLOCKS distinct blocks,
\* log_write never panics with "too big a transaction" and lh.n never
\* exceeds LOGSIZE.
C11_NoTooBig ==
  /\ boot.panic # "too big a transaction"
  /\ log.n <= LOGSIZE


\* C12: while log.committing is set, log.outstanding is 0 and no begin_op
\* returns; at most one operation is inside commit(), and it does not hold
\* log.lock there.
CommitPcs == {"write_log", "write_head", "install", "clear"}
InCommit == {o \in Ops : op[o].pc \in CommitPcs}
C12_State ==
  /\ log.committing => log.outstanding = 0
  /\ Cardinality(InCommit) <= 1
  /\ \A o \in InCommit : log.committing /\ log.lock # o
C12_Step ==
  /\ C12_State'
  /\ \A o \in Ops :
       (op[o].pc \in {"idle", "runnable"} /\ op'[o].pc = "inop")
         => (~log.committing /\ ~log'.committing)
C12_StateMachine == [][C12_Step]_vars
C12_Witness ==
  \E o \in Ops : \E p \in Ops :
    /\ op[o].pc = "install" /\ log.committing
    /\ op[p].pc = "sleep"


\* C13: the disk writes of one commit come in this order: log blocks
\* 1..n, the header with n > 0, the n home blocks, the header with n = 0; no
\* home block is written before the header with n > 0.
CommitWrites ==
  LET n == Cardinality(tx.cur.blocks)
  IN [i \in 1..(2 * n + 2) |->
        IF i <= n THEN <<"log", i>>
        ELSE IF i = n + 1 THEN <<"head", n>>
        ELSE IF i <= 2 * n + 1 THEN <<"home", log.block[i - n - 1]>>
        ELSE <<"head", 0>>]
C13_WriteOrder ==
  /\ tx.wseq # <<>> =>
       /\ Len(tx.wseq) <= Len(CommitWrites)
       /\ \A i \in 1..Len(tx.wseq) : tx.wseq[i] = CommitWrites[i]
  /\ \A i \in 1..Len(tx.wseq) :
       tx.wseq[i][1] = "home" =>
         \E j \in 1..(i - 1) : tx.wseq[j][1] = "head" /\ tx.wseq[j][2] > 0
C13_Witness ==
  /\ Cardinality(tx.cur.blocks) = 2
  /\ Len(tx.wseq) = 6


\* C14: recovery is idempotent.  Whatever crashes interrupt
\* recover_from_log, and when it is run again after it finished, the home
\* blocks at its end are those one uninterrupted recovery would have left
\* (at every point of a recovery, replaying what is on disk gives them).
C14_RecoveryIdempotent ==
  /\ boot.pc # "run" => Replay(ldisk) = tx.exp
  /\ boot.pc = "rec_done" => ldisk.home = tx.exp
\* a second recovery that replays a block the interrupted one had installed
C14_Witness ==
  /\ boot.rcrashes > 0
  /\ boot.pc = "rec_install" /\ boot.tail = 0
  /\ log.n = 2
  /\ ldisk.home[log.block[1]] = ldisk.logblk[1]
  /\ ldisk.home[log.block[1]] # tx.cr.pre[log.block[1]]
  /\ ldisk.home[log.block[2]] # ldisk.logblk[2]

\* The blocks reachable from the addrs of the inode in cache entry i: the direct
\* blocks, the singly-indirect block and its entries, the doubly-indirect
\* block, its second-level blocks and their entries.
EntriesOf(b) == IF b = 0 THEN {} ELSE {fsd.blk[b][j] : j \in 0..(NINDIRECT - 1)} \ {0}
ReachableBlocks(i) ==
  LET direct == {ic[i].addrs[k] : k \in 0..(NDIRECT - 1)}
      ind == ic[i].addrs[NDIRECT]
      dind == ic[i].addrs[NDIRECT + 1]
  IN (direct \cup {ind, dind} \cup EntriesOf(ind) \cup EntriesOf(dind)
      \cup UNION {EntriesOf(b) : b \in EntriesOf(dind)}) \ {0}
\* the step is an iput of the reference to entry i that the process holds
IputStepOf(i) ==
  \/ fg.cur = i /\ fg'.cur = 0 /\ fg'.dup = fg.dup
  \/ fg.dup = i /\ fg'.dup = 0 /\ fg'.cur = fg.cur

\* C15: when iput drops the last reference (ref = 1, valid) to an inode with
\* nlink = 0, every block that was reachable from its addrs is free in the
\* bitmap afterwards, no other bitmap bit has changed, the inode's addrs are
\* all 0, its size is 0 and its on-disk type is 0.
C15_Destroy ==
  \A i \in Slots :
    (/\ IputStepOf(i)
     /\ ic[i].ref = 1 /\ ic[i].valid # 0 /\ ic[i].nlink = 0)
    => /\ fsd'.panic = ""
       /\ fsd'.used = fsd.used \ ReachableBlocks(i)
       /\ ReachableBlocks(i) \subseteq fsd.used
       /\ ic'[i].addrs = NoAddrs
       /\ ic'[i].size = 0
       /\ fsd'.din.type = 0
       /\ fsd'.din.size = 0
       /\ fsd'.din.addrs = NoAddrs
       /\ ic'[i].ref = 0
C15_InodeDestruction == [][C15_Destroy]_vars
\* a file using every block of a file of MAXFILE blocks has just been destroyed
C15_Witness ==
  /\ Cardinality(fg.freed) = MAXFILE + 2 + NINDIRECT
  /\ fsd.din.type = 0
  /\ fsd.used = 1..NOTHER
  /\ \A i \in Slots : ic[i].inum = TestIno => ic[i].ref = 0 /\ ic[i].addrs = NoAddrs

\* the inode sleep-locks process t holds
HeldLocks(t) == {i \in Slots : ilk[i] = t}
InodeOf(t) == ic[wk[t].ip].inum

\* C16: path walks cannot deadlock: every namei/nameiparent call of every
\* process, whatever the other processes walk at the same time, terminates,
\* and at every moment each walking process holds at most one inode sleep-lock.
C16_NoDeadlock ==
  /\ [](\A t \in Walkers : Cardinality(HeldLocks(t)) <= 1)
  /\ [](dk.panic = "" /\ dk.icl = 0)
  /\ \A t \in Walkers : (wk[t].pc # "idle") ~> (wk[t].pc = "idle")
\* one process walks /a/b and holds a locked while the other walks /b/a and
\* holds b locked
C16_Witness ==
  \E t, u \in Walkers :
    /\ wk[t].pc = "locked" /\ InodeOf(t) = DirA /\ wk[t].name = "b"
    /\ wk[u].pc = "locked" /\ InodeOf(u) = DirB /\ wk[u].name = "a"
    /\ HeldLocks(t) # {} /\ HeldLocks(u) # {}

\* C17: under any interleaving of iget, idup and iput, at most one inode cache
\* entry with ref > 0 has a given (dev, inum), and the dev and inum of an entry
\* are not overwritten while its ref > 0.
C17_Unique ==
  \A i, j \in Slots :
    (i # j /\ ic[i].ref > 0 /\ ic[j].ref > 0)
    => ~(ic[i].dev = ic[j].dev /\ ic[i].inum = ic[j].inum)
C17_Keep ==
  \A i \in Slots :
    ic[i].ref > 0 => (ic'[i].dev = ic[i].dev /\ ic'[i].inum = ic[i].inum)
C17_CacheUniqueness == C17_Unique /\ [][C17_Unique' /\ C17_Keep]_vars
\* one process is inside iput's destruction of f, between the releasesleep and
\* the ref--, while the other holds a directory locked and a third inode is
\* referenced as well
C17_Witness ==
  \E t, u \in Walkers :
    /\ wk[t].pc = "iput_dec" /\ InodeOf(t) = FileF /\ ic[wk[t].ip].ref = 1
    /\ wk[u].pc = "locked"
    /\ Cardinality({i \in Slots : ic[i].ref > 0}) >= 3
    /\ ic[RootSlot].ref = NWALKER

\* what the process wrote from offset off to the end of the file
WrittenFrom(off) == SubSeq(fg.exp, off + 1, Len(fg.exp))

\* C18: read-after-write through the block map: after writei stored bytes in
\* the direct, singly-indirect and doubly-indirect ranges of an inode, readi
\* from any offset to the end returns exactly the bytes written last at each
\* offset, and ip->size is the end offset of the highest write.
C18_ReadAfterWrite ==
  (fg.cur # 0 /\ fsd.panic = "" /\ ic[fg.cur].type = T_FILE)
  => /\ ic[fg.cur].size = Len(fg.exp)
     /\ fsd.din.size = Len(fg.exp)
     /\ fg.rdoff >= 0 => fg.rd = WrittenFrom(fg.rdoff)
     /\ \A off \in 0..Len(fg.exp) :
          LET r == Readi(F0, fg.cur, off, MAXFILE * BSIZE)
          IN r.data = WrittenFrom(off) /\ r.ret = Len(fg.exp) - off /\ r.F = F0
\* readi from offset 0 has returned a file that reaches into the second
\* second-level block of the doubly-indirect range and holds the data of
\* several writes
C18_Witness ==
  /\ fg.cur # 0 /\ fg.rdoff = 0
  /\ Len(fg.rd) > (NDIRECT + NINDIRECT + NINDIRECT) * BSIZE
  /\ fg.rd = fg.exp
  /\ Cardinality({fg.rd[k] : k \in 1..Len(fg.rd)}) >= 3
  /\ ic[fg.cur].addrs[NDIRECT + 1] # 0

\* the entries of the directory in cache entry dp, read from offset 0 to its
\* end, in the icache icx and on the disk dx
DirContent(icx, dx, dp) == Readi([ic |-> icx, d |-> dx], dp, 0, MAXFILE * BSIZE).data
\* the non-empty entries of the directory content c whose name is nm as
\* dirlink stores it
EntriesNamed(c, nm) ==
  {k \in 1..Len(c) : DeInum(c[k]) # 0 /\ DeName(c[k]) = Strncpy(nm)}
\* the references to inode inum in the icache icx
RefOf(icx, inum) ==
  IF \E i \in Slots : icx[i].ref > 0 /\ icx[i].inum = inum
  THEN icx[CHOOSE i \in Slots : icx[i].ref > 0 /\ icx[i].inum = inum].ref
  ELSE 0
\* the step is a dirlink call on a directory that held an entry with the
\* name; given that need holds of the inode number of that entry, the call
\* returned -1 and left the directory, the disk and the references of the
\* entry's inode alone
Refused(need(_)) ==
  (fg'.call # <<>> /\ fg.cur # 0)
  => LET c == DirContent(ic, fsd, fg.cur)
         found == EntriesNamed(c, fg'.call[2])
     IN (found # {} /\ need(DeInum(c[MinOf(found)])))
        => /\ fsd'.panic = ""
           /\ fg'.ret = 0 - 1
           /\ DirContent(ic', fsd', fg.cur) = c
           /\ ic'[fg.cur].size = ic[fg.cur].size
           /\ fsd' = fsd
           /\ RefOf(ic', DeInum(c[MinOf(found)]))
                = RefOf(ic, DeInum(c[MinOf(found)]))
Always(e) == TRUE
\* iget of inode e finds it cached or finds an unused cache entry
CanIget(e) == RefOf(ic, e) > 0 \/ \E i \in Slots : ic[i].ref = 0
NoTwoEntries ==
  (fg.cur # 0 /\ fsd.panic = "" /\ ic[fg.cur].type = T_DIR)
  => LET c == DirContent(ic, fsd, fg.cur)
     IN \A k, l \in 1..Len(c) :
          (k # l /\ DeInum(c[k]) # 0 /\ DeInum(c[l]) # 0)
          => DeName(c[k]) # DeName(c[l])

HoldsSpinlock(t) == \E k \in Buckets : maplock[k] = t \/ evlock[k] = t

AtAcquiresleep ==
  \A t \in Threads :
    th[t].pc \in {"bget_sleep", "bget_rehit_sleep"} => ~HoldsSpinlock(t)

\* ------------------------------------------------- buffer cache, bget paths
\* the pcs of bget behind the first scan: the slow path and the eviction
SlowPathPcs ==
  {"bget_evlock", "bget_rescan", "bget_rehit", "bget_rehit_sleep", "bget_lru",
   "bget_victim", "bget_relink", "bget_install"}

\* C21: when the first scan of bget (lines 92-100) finds a buffer with the
\* identity asked for in bucket hash(dev, blockno), the call raises that
\* buffer's refcnt by exactly one and goes on to return that buffer: it is
\* not stopped, it does not enter the slow path or the eviction scan, and
\* no buffer's dev, blockno or valid changes.
C21_HitStep ==
  \A t \in Threads :
    (/\ th[t].pc = "bget_fast" /\ th'[t].pc # "bget_fast"
     /\ Matches(th[t].key, th[t].blockno) # << >>)
    => LET b == Matches(th[t].key, th[t].blockno)[1]
       IN /\ buf'[b].refcnt = buf[b].refcnt + 1
          /\ th'[t].b = b
          /\ th'[t].pc # "panic"
          /\ th'[t].pc \notin SlowPathPcs
          /\ \A c \in Bufs : /\ buf'[c].dev = buf[c].dev
                             /\ buf'[c].blockno = buf[c].blockno
                             /\ buf'[c].valid = buf[c].valid
C21_FastHit == [][C21_HitStep]_vars

\* the buffers of a list as a set
BucketSet(k) == {Bucket(k)[j] : j \in 1..Len(Bucket(k))}

\* C22: LRU victim selection.  When the eviction scan of bget has gone
\* through bucket i (lines 118-136), the candidate it keeps,
\* before_last->next, has a lastuse no greater than that of any buffer of
\* bucket i with refcnt == 0; as this holds after every bucket, the buffer
\* recycled has the minimum lastuse among the buffers that had refcnt == 0
\* when their bucket was scanned.
C22_ScanStep ==
  \A t \in Threads :
    (th[t].pc = "bget_lru" /\ th'[t].i = th[t].i + 1)
    => \A b \in BucketSet(th[t].i) :
         buf[b].refcnt = 0
         => /\ th'[t].before_last # 0
            /\ LastuseOf(NextOf(th'[t].before_last)) <= buf[b].lastuse
C22_LruVictim == [][C22_ScanStep]_vars

\* the bucket spinlocks thread t holds
HeldBuckets(t) == {k \in Buckets : maplock[k] = t}

OnlyBucketZeroHeld ==
  \A t \in Threads : th[t].holding_bucket \in {NoHold, 0}

\* C24: of two threads that miss on the same (dev, blockno), the one that
\* takes the eviction lock second finds the block on its re-scan (lines
\* 105-106): it raises the refcnt of the buffer the first one installed, so
\* that refcnt counts both, and goes on to return that same buffer; and a
\* thread installs a block (lines 151-154) only when no other buffer with
\* refcnt > 0 carries it, so exactly one buffer is installed for the block.
C24_RescanStep ==
  \A t \in Threads :
    /\ (th[t].pc = "bget_rehit" /\ th'[t].pc # "bget_rehit")
       => /\ th'[t].pc = "bget_rehit_sleep"
          /\ th'[t].b = th[t].b
          /\ buf'[th[t].b].refcnt = buf[th[t].b].refcnt + 1
    /\ (th[t].pc = "bget_rehit_sleep" /\ th'[t].pc # "bget_rehit_sleep")
       => /\ th'[t].pc = "bread_io"
          /\ th'[t].b = th[t].b
    /\ (th[t].pc = "bget_install" /\ th'[t].pc # "bget_install")
       => \A c \in Bufs \ {th[t].b} :
            ~(/\ buf[c].refcnt # 0
              /\ buf[c].dev = ROOTDEV
              /\ buf[c].blockno = th[t].blockno)
C24_SameMissOneBuffer == [][C24_RescanStep]_vars

\* C25: every spinlock bget releases is one the calling thread holds at that
\* moment (release() of any other lock panics, so no bget call is stopped in
\* release()), and a thread that has returned from bget holds no bufmap
\* bucket lock and no eviction lock; on the fast-hit, slow-hit and eviction
\* paths, for every key.
C25_ReleasesHeld ==
  \A t \in Threads :
    /\ ~(th[t].pc = "panic" /\ th[t].msg = "release")
    /\ th[t].pc \in {"bread_io", "bread_ret", "idle"} => ~HoldsSpinlock(t)

\* the buckets whose list holds buffer b
BucketsOf(b) == {k \in Buckets : b \in BucketSet(k)}
\* a bget is moving buffer b to its target bucket: unlinked at line 144, not
\* yet linked at lines 147-148
Moving(b) == \E t \in Threads : th[t].pc = "bget_relink" /\ th[t].b = b
\* a buffer with refcnt > 0 is linked in bucket hash(dev, blockno), and
\* brelse decrements under the lock of the bucket that holds the buffer
InHashBucket ==
  /\ \A b \in Bufs :
       buf[b].refcnt # 0
         => BucketsOf(b) = {BUFMAP_HASH(buf[b].dev, buf[b].blockno)}
  /\ \A t \in Threads :
       th[t].pc = "brelse_dec" => th[t].b \in BucketSet(th[t].key)

\* C26 as stated: at any time every buffer is linked in exactly one bucket
\* list, the total over all buckets is NBUF, and every buffer with
\* refcnt > 0 is linked in bucket hash(dev, blockno).
C26_ExactlyOneBucket ==
  /\ \A b \in Bufs : Cardinality(BucketsOf(b)) = 1
  /\ InHashBucket

\* C26 with the move of a victim taken into account: every buffer is linked
\* in exactly one bucket list, except the victim a bget is moving from the
\* bucket it was found in to bucket hash(dev, blockno) (between lines 144 and
\* 147), which is linked in none and has refcnt 0; every bucket list holds a
\* buffer at most once; and every buffer with refcnt > 0 is linked in bucket
\* hash(dev, blockno).
C26_OneBucketUnlessMoving ==
  /\ \A b \in Bufs :
       IF Moving(b)
       THEN BucketsOf(b) = {} /\ buf[b].refcnt = 0
       ELSE Cardinality(BucketsOf(b)) = 1
  /\ \A k \in Buckets : Cardinality(BucketSet(k)) = Len(Bucket(k))
  /\ InHashBucket
\* a victim on its way to bucket 1 while a thread holds a buffer of bucket 0
C26_Witness ==
  \E t \in Threads : \E u \in Threads : \E h \in th[u].held :
    /\ th[t].pc = "bget_relink" /\ BucketsOf(th[t].b) = {}
    /\ BucketsOf(h[1]) = {0} /\ buf[h[1]].refcnt = 1

\* thread t is between the refcnt++ (or the install) of bget on buffer b and
\* the refcnt-- of its brelse: inside bget behind the increment, returned
\* from bread and holding b, or inside brelse before the decrement
HasRef(t, b) ==
  \/ \E h \in th[t].held : h[1] = b
  \/ /\ th[t].pc \in {"bget_rehit_sleep", "bget_sleep", "bread_io",
                      "bread_ret", "brelse_dec"}
     /\ th[t].b = b
\* the threads that have obtained b from bread/bget and not yet released it
Holders(b) == {t \in Threads : HasRef(t, b)}
\* the same, with the threads a panic stopped inside bget behind the
\* increment counted as well
HoldersOrStopped(b) ==
  {t \in Threads : HasRef(t, b) \/ (th[t].pc = "panic" /\ th[t].b = b)}
PinCount(b) == IF pins[b] # 0 THEN 1 ELSE 0
RefcntCounts == \A b \in Bufs : buf[b].refcnt = Cardinality(Holders(b)) + PinCount(b)
RefcntCountsStopped ==
  \A b \in Bufs : buf[b].refcnt = Cardinality(HoldersOrStopped(b)) + PinCount(b)
NoUnderflowStep ==
  \A b \in Bufs : buf'[b].refcnt = UDec(buf[b].refcnt) => buf[b].refcnt # 0
NoUnderflow == [][NoUnderflowStep]_vars

\* C27: in every reachable state each buffer's refcnt is the number of
\* threads that have obtained the buffer from bread/bget and not yet given it
\* back with brelse, plus the outstanding bpin on it; and no step decrements
\* a refcnt that is 0.
C27_RefcntIsHolders == []RefcntCounts /\ [][NoUnderflowStep]_vars

\* the log's side of C27 (log.c 79-95, 265-267): a block is pinned from the
\* log_write that appends it to the commit's install_trans and never below
\* 0, and when the commit has cleared lh.n no pin is left
LogPinsReleased ==
  /\ \A b \in HomeBlocks : lpin[b] \in {0, 1}
  /\ (boot.pc = "run" /\ log.n = 0) => \A b \in HomeBlocks : lpin[b] = 0

\* C28: brelse.  A brelse call panics exactly when the caller does not hold
\* b->lock, and then changes nothing.  Otherwise it releases the sleep-lock
\* (lines 223-225), and under the lock of the bucket that holds the buffer
\* (lines 227-235) decrements refcnt by exactly one and sets lastuse to ticks
\* exactly when refcnt has become 0; nothing else of any buffer changes.
C28_BrelseStep ==
  \A t \in Threads :
    /\ (th[t].pc = "idle" /\ th'[t].pc = "panic" /\ th'[t].msg = "brelse")
       => /\ slock[th'[t].b] # t
          /\ buf' = buf /\ slock' = slock
    /\ (th[t].pc = "idle" /\ th'[t].pc = "brelse_dec")
       => /\ slock[th'[t].b] = t
          /\ slock' = [slock EXCEPT ![th'[t].b] = 0]
          /\ buf' = buf
    /\ (th[t].pc = "brelse_dec" /\ th'[t].pc # "brelse_dec")
       => LET b == th[t].b
          IN /\ th'[t].pc = "idle"
             /\ maplock[BUFMAP_HASH(buf[b].dev, buf[b].blockno)] = 0
             /\ BucketsOf(b) = {BUFMAP_HASH(buf[b].dev, buf[b].blockno)}
             /\ buf[b].refcnt # 0
             /\ buf' = [buf EXCEPT ![b].refcnt = buf[b].refcnt - 1,
                                   ![b].lastuse = IF buf[b].refcnt - 1 = 0
                                                  THEN ticks ELSE @]
             /\ slock' = slock /\ maplock' = maplock
C28_Brelse == [][C28_BrelseStep]_vars
\* one thread was stopped in brelse for a buffer it does not hold; a buffer
\* released at tick 1 carries the stamp, and a pinned buffer that was
\* released keeps refcnt 1 and its old stamp
C28_Witness ==
  /\ \E t \in Threads : th[t].pc = "panic" /\ th[t].msg = "brelse"
  /\ ticks = 1
  /\ \E b \in Bufs : buf[b].refcnt = 0 /\ buf[b].lastuse = 1
  /\ \E b \in Bufs :
       /\ buf[b].refcnt = 1 /\ pins[b] # 0 /\ slock[b] = 0
       /\ buf[b].lastuse = 0

\* ------------------------------------------------------------------ C29
\* log.c 151-159: a process woken from sleep(&log, &log.lock) runs the loop
\* of begin_op again
BeginOpRetry(o) == op[o].pc = "runnable" /\ BeginOp(o)
\* log.c 160-163: that pass finds no commit running and room in the log
BeginOpAdmit(o) == BeginOpRetry(o) /\ op'[o].pc = "inop"
\* log.c 192-204: the committing end_op after its first critical section
CommitRun(o) ==
  \/ EndOpUnlock(o)
  \/ WriteLog(o)
  \/ WriteHead(o)
  \/ InstallTrans(o)
  \/ ClearHead(o)
  \/ EndOpWake(o)
\* Scheduling is fair: a process that stays runnable runs, a woken begin_op
\* that can be admitted again and again is admitted, and every admitted
\* operation eventually calls end_op.
LogFair(o) ==
  /\ WF_vars(BeginOpRetry(o))
  /\ SF_vars(BeginOpAdmit(o))
  /\ WF_vars(LogWriteLocked(o))
  /\ SF_vars(EndOp(o))
  /\ WF_vars(CommitRun(o))
\* The kernel from boot (initlog finds an empty log) for as long as it
\* runs: a crash ends every process, the sleeping begin_op included.
NextLogRun ==
  \/ \E o \in Ops : OpStep(o)
  \/ \E b \in HomeBlocks : Evict(b)
  \/ RecReadHead
  \/ RecClear
  \/ RecDone
SpecLogRun == Init /\ [][NextLogRun]_vars
SpecLogFair == SpecLogRun /\ \A o \in Ops : LogFair(o)

NextLogCalls ==
  \/ NextLogRun
  \/ \E o \in Ops : \E b \in HomeBlocks : \E v \in Data : LogWriteOutside(o, b, v)
  \/ \E o \in Ops : LogWriteOutsideLocked(o)
SpecLogCalls == Init /\ [][NextLogCalls]_vars

\* log.c 254-257: what log_write tests at entry
LogWriteRefused ==
  \/ log.outstanding < 1
  \/ log.n >= LOGSIZE
  \/ log.n >= LogRegionSize - 1
LogWritePanics == {"too big a transaction", "log_write outside of trans"}
LogWritePcs == {"log_write", "log_write_out"}

\* C30: a call of log_write panics exactly when outstanding < 1 or
\* lh.n >= LOGSIZE or lh.n >= size - 1 holds at entry, and the panicking call
\* has changed neither lh.n nor lh.block nor the pin count (refcnt) of any
\* buffer; a call that passed the tests never panics.
C30_Step ==
  /\ \A o \in Ops : \A b \in HomeBlocks : \A v \in Data :
       (LogWriteCall(o, b, v) \/ LogWriteOutside(o, b, v)) =>
         /\ LogWriteRefused <=> boot'.panic \in LogWritePanics
         /\ ~LogWriteRefused <=> op'[o].pc \in LogWritePcs
  /\ (boot.panic = "" /\ boot'.panic \in LogWritePanics) =>
       /\ LogWriteRefused
       /\ log'.n = log.n /\ log'.block = log.block /\ lpin' = lpin
  /\ \A o \in Ops :
       (op[o].pc \in LogWritePcs /\ op'[o].pc \notin LogWritePcs) =>
         /\ boot'.panic = ""
         /\ log'.n \in {log.n, log.n + 1}
C30_LogWritePanics == [][C30_Step]_vars

\* log_write was called outside any operation while a commit with a
\* non-empty log was running, and panicked
C30_Witness ==
  /\ boot.panic = "log_write outside of trans"
  /\ log.committing /\ log.n > 0 /\ log.outstanding = 0

\* ------------------------------------------------------------------ C31
\* initlog has returned, no operation is outstanding and no commit runs
LogIdle == boot.pc = "run" /\ log.outstanding = 0 /\ ~log.committing

\* C31: whenever the log is idle (outstanding == 0 and committing == false
\* once initlog has returned, so also right after initlog and right after
\* every commit), the in-memory lh.n is 0 and the header on disk holds
\* n == 0.
C31_IdleLogEmpty == LogIdle => (log.n = 0 /\ ldisk.hn = 0)

\* the log is idle after a reboot, right after a commit that logged blocks
C31_Witness ==
  /\ LogIdle /\ LogLive
  /\ boot.crashes = 1
  /\ tx.done.blocks # {} /\ tx.done.committed

\* ------------------------------------------------------------------ C32
\* fs.c 366: what iput tests under icache.lock before it destroys the inode
LastRefNoLinks(i) == ic[i].ref = 1 /\ ic[i].valid # 0 /\ ic[i].nlink = 0

\* C32: the acquiresleep of iput's destruction path, taken with icache.lock
\* held, never blocks: no process ever sleeps there, and whenever a process
\* that calls iput finds ref == 1, valid and nlink == 0, nobody holds
\* ip->lock, whatever the other processes iget, ilock, iunlock and iput.
C32_IputNeverBlocks ==
  /\ \A t \in Walkers : wk[t].pc # "iput_sleep"
  /\ \A t \in Walkers :
       (wk[t].pc = "iput" /\ wk[t].ip \in Slots /\ LastRefNoLinks(wk[t].ip))
       => ilk[wk[t].ip] = 0

\* a process has taken the sleep-lock of the unlinked f on iput's
\* destruction path while the other process is inside a walk of its own
\* with a directory locked
C32_Witness ==
  \E t, u \in Walkers :
    /\ t # u
    /\ wk[t].pc = "itrunc" /\ InodeOf(t) = FileF /\ ilk[wk[t].ip] = t
    /\ ic[wk[t].ip].ref = 1 /\ ic[wk[t].ip].nlink = 0
    /\ wk[u].pc = "locked" /\ HeldLocks(u) # {}

\* ------------------------------------------------------------------ C33
\* fs.c 413-456 read without allocating: the block that inode entry i maps
\* bn to on disk dx, 0 when a slot on the way is 0
MappedAt(icx, dx, i, bn) ==
  IF bn < NDIRECT THEN icx[i].addrs[bn]
  ELSE IF bn - NDIRECT < NINDIRECT
  THEN IF icx[i].addrs[NDIRECT] = 0 THEN 0
       ELSE dx.blk[icx[i].addrs[NDIRECT]][bn - NDIRECT]
  ELSE IF icx[i].addrs[NDIRECT + 1] = 0 THEN 0
  ELSE LET b1 == dx.blk[icx[i].addrs[NDIRECT + 1]]
                       [(bn - NDIRECT - NINDIRECT) \div NINDIRECT]
       IN IF b1 = 0 THEN 0
          ELSE dx.blk[b1][(bn - NDIRECT - NINDIRECT) % NINDIRECT]
\* the slots on the way to bn that hold 0; a slot below a slot that holds 0
\* lies in a block not yet allocated
ZeroSlots(icx, dx, i, bn) ==
  IF bn < NDIRECT THEN IF icx[i].addrs[bn] = 0 THEN 1 ELSE 0
  ELSE IF bn - NDIRECT < NINDIRECT
  THEN IF icx[i].addrs[NDIRECT] = 0 THEN 2
       ELSE IF MappedAt(icx, dx, i, bn) = 0 THEN 1 ELSE 0
  ELSE IF icx[i].addrs[NDIRECT + 1] = 0 THEN 3
  ELSE IF dx.blk[icx[i].addrs[NDIRECT + 1]]
                [(bn - NDIRECT - NINDIRECT) \div NINDIRECT] = 0 THEN 2
  ELSE IF MappedAt(icx, dx, i, bn) = 0 THEN 1 ELSE 0
FileBns == 0..(MAXFILE - 1)

\* one call bmap(ip, bn) on a live kernel
C33_Call(bn) ==
  LET i == fg.cur
  IN IF bn \in FileBns
     THEN /\ fsd'.panic = ""
          /\ fg'.ret # 0 /\ fg'.ret \in fsd'.used
          /\ MappedAt(ic', fsd', i, bn) = fg'.ret
          /\ MappedAt(ic, fsd, i, bn) # 0 =>
               /\ fg'.ret = MappedAt(ic, fsd, i, bn)
               /\ ic' = ic /\ fsd'.blk = fsd.blk /\ fsd'.used = fsd.used
          /\ \A m \in FileBns :
               MappedAt(ic, fsd, i, m) # 0 =>
                 MappedAt(ic', fsd', i, m) = MappedAt(ic, fsd, i, m)
          /\ fsd.used \subseteq fsd'.used
          /\ Cardinality(fsd'.used \ fsd.used) = ZeroSlots(ic, fsd, i, bn)
          /\ \A b \in Blocks : fsd'.blk[b] # fsd.blk[b] => b \in fsd'.lw
          /\ Bmap([ic |-> ic', d |-> fsd'], i, bn).a = fg'.ret
     ELSE /\ fsd'.panic = "bmap: out of range"
          /\ ic' = ic /\ fsd'.blk = fsd.blk /\ fsd'.used = fsd.used
C33_Step ==
  \A bn \in 0..(MAXFILE + 1) :
    (fsd.panic = "" /\ fg'.nw = fg.nw + 1 /\ fg'.call = <<"bmap", bn>>)
    => C33_Call(bn)
\* distinct bn of the locked inode are mapped to distinct blocks
C33_Distinct ==
  \A m, n \in FileBns :
    (fg.cur # 0 /\ m # n /\ MappedAt(ic, fsd, fg.cur, m) # 0)
    => MappedAt(ic, fsd, fg.cur, m) # MappedAt(ic, fsd, fg.cur, n)

\* C33: bmap(ip, bn) for bn in [0, NDIRECT + NINDIRECT + NINDIRECT*NINDIRECT)
\* returns a non-zero block number; a repeated call with the same bn returns
\* the same block and changes nothing; distinct bn of an inode have distinct
\* blocks; a block is allocated only for a slot that held 0; every block
\* bmap changes, the indirect blocks included, is passed to log_write; for bn
\* outside the range bmap panics.
C33_Bmap == []C33_Distinct /\ [][C33_Step]_vars

\* bmap has just mapped a block behind the doubly-indirect block whose
\* first-level block existed already, while an earlier bn is mapped too
C33_Witness ==
  /\ fsd.panic = "" /\ fg.cur # 0
  /\ Len(fg.call) = 2 /\ fg.call[1] = "bmap"
  /\ fg.call[2] = MAXFILE - 1 /\ fg.ret # 0
  /\ Cardinality(fsd.lw) = 3
  /\ MappedAt(ic, fsd, fg.cur, 0) # 0
  /\ MappedAt(ic, fsd, fg.cur, NDIRECT + NINDIRECT) # 0

\* ------------------------------------------------------------------ C34
\* the blocks handed out by balloc and not passed to bfree since, as a
\* sequence over the processes, with the blocks of the calls that have set
\* their bit and not yet returned
HandedOut(p) ==
  ba.pr[p].got \cup (IF ba.pr[p].pc = "bzero" THEN {ba.pr[p].b} ELSE {})
C34_NoDouble ==
  /\ \A p, q \in Allocators : p # q => HandedOut(p) \cap HandedOut(q) = {}
  /\ \A p \in Allocators :
       /\ HandedOut(p) \subseteq ba.bits
       /\ ba.pr[p].pc = "bzero" => ba.pr[p].b \notin ba.pr[p].got
C34_Step ==
  \A p \in Allocators :
    /\ (ba.pr[p].pc = "scan" /\ ba'.pr[p].pc # "scan") =>
         IF ClearBits = {}
         THEN ba'.panic = "balloc: out of blocks" /\ ba'.bits = ba.bits
         ELSE /\ ba'.panic = "" /\ ba'.pr[p].pc = "mark"
              /\ ba'.pr[p].b \in ClearBits
              /\ \A x \in ClearBits : ba'.pr[p].b <= x
    /\ (ba.pr[p].pc = "mark" /\ ba'.pr[p].pc # "mark") =>
         /\ ba.pr[p].b \notin ba.bits
         /\ ba'.bits = ba.bits \cup {ba.pr[p].b}
         /\ 0 \in ba'.pr[p].lw
    /\ (ba.pr[p].pc = "bzero" /\ ba'.pr[p].pc = "idle") =>
         /\ ba'.zero[ba.pr[p].b]
         /\ ba.pr[p].b \in ba'.pr[p].lw
         /\ ba.pr[p].b \in ba'.pr[p].got
         /\ ba'.bits = ba.bits
    /\ ba'.panic = "balloc: out of blocks" =>
         (ba.panic # "" \/ ClearBits = {})

\* C34: balloc returns the lowest-numbered block below sb.size whose bit is
\* clear, sets that bit and zeroes the block, both through log_write; no
\* block is handed out by two balloc calls without a bfree of it in
\* between, also when ballocs run concurrently; balloc panics exactly when
\* no bit below sb.size is clear.
C34_Balloc == []C34_NoDouble /\ [][C34_Step]_vars

\* every bit is set, both processes hold blocks, one of them written
\* since, and a further balloc has found no clear bit and panicked
C34_Witness ==
  /\ ba.panic = "balloc: out of blocks"
  /\ \A p \in Allocators : ba.pr[p].got # {}
  /\ \A b \in DiskBlocks : b \in ba.bits
  /\ \E p \in Allocators : \E b \in ba.pr[p].got : ~ba.zero[b]

\* ------------------------------------------------------------------ C35
\* fs.c 573-576: the arguments writei refuses
WriteiRefuses(off, n) ==
  \/ off > ic[fg.cur].size
  \/ off + n >= UINTSZ
  \/ off + n > MAXFILE * BSIZE
\* fs.c 540: the arguments readi refuses
ReadiRefuses(off, n) ==
  \/ off > ic[fg.cur].size
  \/ off + n >= UINTSZ
\* every step of SpecArgs that is a call records it in fg.call
C35_Step ==
  LET c == fg'.call
  IN Len(c) = 3 =>
       /\ (c[1] = "writei" /\ WriteiRefuses(c[2], c[3])) =>
            /\ fg'.ret = 0 - 1
            /\ ic' = ic /\ fsd' = fsd
       /\ (c[1] = "writei" /\ ~WriteiRefuses(c[2], c[3])) =>
            (fsd'.panic = "" => fg'.ret = c[3])
       /\ (c[1] = "readi" /\ ReadiRefuses(c[2], c[3])) =>
            /\ fg'.ret = 0
            /\ ic' = ic /\ fsd' = fsd
       /\ c[1] = "readi" => fsd'.used = fsd.used /\ fsd'.panic = ""

\* C35: out-of-range arguments are rejected without side effects: writei
\* with off > ip->size, with off + n wrapping around or with off + n >
\* MAXFILE*BSIZE returns -1 and changes neither the inode nor the bitmap nor
\* any block nor what goes to the log; readi with off > ip->size or off + n
\* wrapping around returns 0 and allocates no block (no readi does).
C35_OutOfRange == [][C35_Step]_vars

\* on a file that reaches into its indirect block, a writei inside the file
\* whose off + n wraps around was refused
C35_Witness ==
  /\ fsd.panic = "" /\ fg.cur # 0
  /\ Len(fg.call) = 3 /\ fg.call[1] = "writei"
  /\ fg.call[2] > 0 /\ fg.call[2] <= ic[fg.cur].size
  /\ fg.call[2] + fg.call[3] >= UINTSZ
  /\ fg.ret = 0 - 1
  /\ ic[fg.cur].size > NDIRECT * BSIZE
  /\ ic[fg.cur].addrs[NDIRECT] # 0

\* ------------------------------------------------------------- C36
\* the references process t holds on cache entry i: the one on ip from the
\* iget or idup that began the walk (or from the dirlookup that made it ip)
\* until the iput's ref--, and the one on next from the dirlookup until next
\* becomes ip
WalkPcs ==
  {"loop", "ilock", "locked", "iunlock", "iput", "iput_sleep", "itrunc",
   "iput_dec"}
RefsOn(i) ==
  Cardinality({t \in Walkers : wk[t].pc \in WalkPcs \cup {"have"}
                               /\ wk[t].ip = i})
  + Cardinality({t \in Walkers : wk[t].k = "next" /\ wk[t].next = i})
\* the references that are not those of a walk: the cwd of every process
CwdRefs(i) == Cardinality({t \in Walkers : wk[t].cwd = i})
\* namex is returning 0 to process t: the step that ends the call's last
\* iput, the call having stopped at a name or on nameiparent's empty path
ReturnsNull(t) ==
  /\ wk[t].pc \in WalkPcs /\ wk'[t].pc = "idle"
  /\ wk[t].name # "" \/ wk[t].parent
\* namex is returning an inode to process t
ReturnsInode(t) == wk[t].pc \in WalkPcs /\ wk'[t].pc = "have"
C36_Counted == \A i \in Slots : ic[i].ref = CwdRefs(i) + RefsOn(i)
C36_Return ==
  \A t \in Walkers :
    /\ ReturnsNull(t)
       => /\ HeldLocks(t)' = {}
          /\ \A i \in Slots :
               ic'[i].ref = CwdRefs(i)
                            + Cardinality({u \in Walkers \ {t} :
                                  wk'[u].pc \in WalkPcs \cup {"have"}
                                  /\ wk'[u].ip = i})
                            + Cardinality({u \in Walkers \ {t} :
                                  wk'[u].k = "next" /\ wk'[u].next = i})
    /\ ReturnsInode(t)
       => /\ HeldLocks(t)' = {}
          /\ \A i \in Slots :
               ic'[i].ref = CwdRefs(i)
                            + (IF wk'[t].ip = i THEN 1 ELSE 0)
                            + Cardinality({u \in Walkers \ {t} :
                                  wk'[u].pc \in WalkPcs \cup {"have"}
                                  /\ wk'[u].ip = i})
                            + Cardinality({u \in Walkers \ {t} :
                                  wk'[u].k = "next" /\ wk'[u].next = i})
\* C36: reference and lock balance of namex.  The ref of every inode cache
\* entry is at every moment the number of its cwd references plus the number
\* of references the walks in flight and the callers that got an inode hold on
\* it; at a return of 0 the returning process holds no inode sleep-lock and no
\* reference (every ref is what it was before the call, up to what the other
\* processes hold); at a return of an inode the process holds no sleep-lock
\* and exactly one reference, on the inode returned.
C36_NamexBalance == []C36_Counted /\ [][C36_Return]_vars
\* one process got directory b from namei("a/b") and holds its reference,
\* while the other, looking for the missing name f in b, is in the iput before
\* its return of 0
C36_Witness ==
  \E t, u \in Walkers :
    /\ wk[t].pc = "have" /\ InodeOf(t) = DirB /\ HeldLocks(t) = {}
    /\ wk[u].pc = "iput" /\ wk[u].k = "ret0" /\ wk[u].name = "f"
    /\ wk[u].ip = wk[t].ip /\ ic[wk[t].ip].ref = 2

\* ------------------------------------------------------------- C37
\* CPU c's kalloc returns 0 in this step
KallocReturnsNull(c) ==
  /\ km.cpu[c].pc = "pop" /\ km'.cpu[c].pc = "idle"
  /\ km.freelist[c] = 0
\* a kalloc that returns 0 while no other CPU was in a call finds every free
\* list empty
C37_NullOnlyIfEmpty ==
  \A c \in Cpus :
    (KallocReturnsNull(c) /\ km.cpu[c].alone)
    => \A d \in Cpus : km.freelist[d] = 0
\* C37: kalloc returns 0 only when no free page is available on any CPU: a
\* kalloc that finds its own list empty while another CPU's list is not empty
\* steals pages from the other lists without a fault and returns a page.
C37_KallocFindsPage == []KmLive /\ [][C37_NullOnlyIfEmpty]_vars

\* ------------------------------------------------------------- C38
\* the pages on the list that begins at page h, followed for k links
RECURSIVE RunsFrom(_, _)
RunsFrom(h, k) ==
  IF h = 0 \/ k = 0 THEN {} ELSE {h} \cup RunsFrom(km.next[h], k - 1)
OnList(c) == RunsFrom(km.freelist[c], NPAGE)
\* the CPUs that have page p in hand: taken off a list by a steal and not
\* yet pushed, or passed to a kfree that has not yet pushed it
InHand(p) ==
  {c \in Cpus : \/ km.cpu[c].pc \in {"link", "push"} /\ km.cpu[c].rr = p
                \/ km.cpu[c].pc = "free" /\ km.cpu[c].pa = p}
\* C38: page conservation: every page is at any time on exactly one CPU's
\* free list, or allocated to a caller, or in the hand of one kalloc or kfree
\* that is moving it; no page is on two lists, both free and allocated, or
\* lost.
C38_PageConservation ==
  \A p \in Pages :
    Cardinality({c \in Cpus : p \in OnList(c)})
    + Cardinality(InHand(p))
    + (IF p \in km.out THEN 1 ELSE 0) = 1

====
